---- MODULE Spec2Model ----
(***************************************************************************)
(* Model of the financial-product recommendation pipeline:                 *)
(*   raw record -> process_product -> calculate_score -> rank_products     *)
(*   -> recommend_products (merge, sort, truncate).                        *)
(*                                                                         *)
(* Conventions                                                             *)
(*   - A Python float is a fixed-point integer.  Rates, fees, returns and  *)
(*     every other attribute are held in TENTHS (7.5 is 75); scores and    *)
(*     boosts are held in THOUSANDTHS (100.0 is 100000).                   *)
(*   - A Python string is a sequence of word tokens; `a in b` on strings   *)
(*     is contiguous token containment, and lower() maps tokens through    *)
(*     LowerTok.                                                           *)
(*   - A Python value of unknown type (a JSON value, a preference value)   *)
(*     is a tagged record PV; a missing dictionary key is the tag          *)
(*     "absent".                                                           *)
(*   - An operation that can raise is modelled by two operators: XExc      *)
(*     gives the exception it raises ("none" when it returns) and X gives  *)
(*     the value it returns when it does not raise.                        *)
(***************************************************************************)
EXTENDS Integers, Sequences, FiniteSets, TLC

VARIABLES
    probe,          \* the last call of a probe: one record scored, or one batch ranked
    pc,             \* recommend_products: "idle", "loop" (the category loop), "done", "raised"
    req,            \* the arguments of the call, and the data directory it reads
    idx,            \* the position of the category loop in product_categories
    all_products,   \* the concatenation buffer of recommend_products
    catlog,         \* the exception each category processed so far ended with
    rec,            \* the ProductRecommendation returned
    vm,             \* the manager's vector_manager: its kind, the in-memory store of
                    \* the fallback, the batches posted to the remote index
    vs,             \* the call in progress on the vector side, and what it returned
    threads         \* concurrent recommend_products calls, one record a call

vars == <<probe, pc, req, idx, all_products, catlog, rec, vm, vs, threads>>

-----------------------------------------------------------------------------
(* Python values *)

PV(kind, num, toks, lst) == [k |-> kind, n |-> num, t |-> toks, l |-> lst]
Absent == PV("absent", 0, <<>>, <<>>)
None == PV("none", 0, <<>>, <<>>)
Num(x) == PV("num", x, <<>>, <<>>)
Bool(b) == PV("bool", IF b THEN 1 ELSE 0, <<>>, <<>>)
Str(toks) == PV("str", 0, toks, <<>>)
List(lst) == PV("list", 0, <<>>, lst)

\* bool(v): Python truthiness
Truthy(v) ==
    CASE v.k = "num" -> v.n # 0
      [] v.k = "bool" -> v.n # 0
      [] v.k = "str" -> v.t # <<>>
      [] v.k = "list" -> v.l # <<>>
      [] OTHER -> FALSE

\* dict.get(key, default) on a record holding every key, missing ones as Absent
Get(d, key, default) == IF d[key].k = "absent" THEN default ELSE d[key]

\* Optional[float] / Optional[int] attribute of a product
NoVal == [some |-> FALSE, v |-> 0]
Some(x) == [some |-> TRUE, v |-> x]
\* `if x:` on an Optional number
OptTruthy(o) == o.some /\ o.v # 0

PyMin(a, b) == IF b < a THEN b ELSE a
PyMax(a, b) == IF b > a THEN b ELSE a
Abs(a) == IF a < 0 THEN -a ELSE a

\* a local name bound to a value: Body applied to v, v evaluated once
With(v, Body(_)) == CHOOSE result \in {Body(x) : x \in {v}} : TRUE

\* [Each(x) for x in s]
MapSeq(s, Each(_)) ==
    With(s, LAMBDA list : [i \in DOMAIN list |-> With(list[i], Each)] \o <<>>)

\* the position of the first element of s satisfying Test, 0 if there is none
FirstWhere(s, Test(_)) ==
    LET hits == {i \in DOMAIN s : With(s[i], Test)} IN
    IF hits = {} THEN 0 ELSE CHOOSE i \in hits : \A j \in hits : i <= j

-----------------------------------------------------------------------------
(* Strings as token sequences *)

\* str.lower() on one token
LowerTok(w) ==
    CASE w = "SBI" -> "sbi"
      [] w = "HDFC" -> "hdfc"
      [] w = "Axis" -> "axis"
      [] w = "Fixed" -> "fixed"
      [] w = "Deposit" -> "deposit"
      [] w = "Unknown" -> "unknown"
      [] w = "Bank" -> "bank"
      [] w = "None" -> "none"
      [] w = "Interest" -> "interest"
      [] w = "Senior" -> "senior"
      [] w = "Minimum" -> "minimum"
      [] w = "Example" -> "example"
      [] w = "Card" -> "card"
      [] w = "Earn" -> "earn"
      [] w = "Fuel" -> "fuel"
      [] w = "Airport" -> "airport"
      [] w = "Welcome" -> "welcome"
      [] w = "Up" -> "up"
      [] w = "Travel" -> "travel"
      [] w = "Premium" -> "premium"
      [] w = "Equity" -> "equity"
      [] w = "Debt" -> "debt"
      [] w = "Growth" -> "growth"
      [] w = "Fund" -> "fund"
      [] w = "Liquid" -> "liquid"
      [] w = "Plain" -> "plain"
      [] w = "Risk" -> "risk"
      [] w = "Low" -> "low"
      [] w = "Moderate" -> "moderate"
      [] w = "High" -> "high"
      [] w = "Very" -> "very"
      [] w = "Rating" -> "rating"
      [] w = "Returns" -> "returns"
      [] w = "Expense" -> "expense"
      [] w = "Ratio" -> "ratio"
      [] w = "Manager" -> "manager"
      [] w = "Min" -> "min"
      [] w = "Investment" -> "investment"
      [] w = "Retirement" -> "retirement"
      [] w = "SIP" -> "sip"
      [] w = "Long" -> "long"
      [] w = "Term" -> "term"
      [] OTHER -> w

\* str.lower()
Lower(s) == [i \in 1..Len(s) |-> LowerTok(s[i])]

\* `kw in text` for two strings
Contains(text, kw) ==
    \/ kw = <<>>
    \/ \E i \in 1..(Len(text) - Len(kw) + 1) :
          \A j \in 1..Len(kw) : text[i + j - 1] = kw[j]

\* any(kw in text for kw in kws)
ContainsAny(text, kws) == \E kw \in kws : Contains(text, kw)

RECURSIVE JoinTexts(_)
\* " ".join(list of strings)
JoinTexts(l) == IF l = <<>> THEN <<>> ELSE Head(l) \o JoinTexts(Tail(l))

\* float literals that occur in the raw data: token -> value in tenths, and
\* whether int(token) accepts it (an optional sign and digits only)
Numerals ==
    [tok \in {"7.5", "8.1", "7.0", "6.5", "-5", "0", "5", "2", "365", "1825",
              "30", "400", "1500", "36.5", "12.5", "-30", "15", "3", "4"} |->
        CASE tok = "7.5" -> [v |-> 75, int |-> FALSE]
          [] tok = "8.1" -> [v |-> 81, int |-> FALSE]
          [] tok = "7.0" -> [v |-> 70, int |-> FALSE]
          [] tok = "6.5" -> [v |-> 65, int |-> FALSE]
          [] tok = "-5" -> [v |-> -50, int |-> TRUE]
          [] tok = "0" -> [v |-> 0, int |-> TRUE]
          [] tok = "5" -> [v |-> 50, int |-> TRUE]
          [] tok = "2" -> [v |-> 20, int |-> TRUE]
          [] tok = "3" -> [v |-> 30, int |-> TRUE]
          [] tok = "4" -> [v |-> 40, int |-> TRUE]
          [] tok = "15" -> [v |-> 150, int |-> TRUE]
          [] tok = "365" -> [v |-> 3650, int |-> TRUE]
          [] tok = "1825" -> [v |-> 18250, int |-> TRUE]
          [] tok = "30" -> [v |-> 300, int |-> TRUE]
          [] tok = "400" -> [v |-> 4000, int |-> TRUE]
          [] tok = "1500" -> [v |-> 15000, int |-> TRUE]
          [] tok = "36.5" -> [v |-> 365, int |-> FALSE]
          [] tok = "12.5" -> [v |-> 125, int |-> FALSE]
          [] tok = "-30" -> [v |-> -300, int |-> TRUE]]

IsNumeral(tok) == tok \in DOMAIN Numerals

\* str(v) for the Python values of the model
StrOf(v) ==
    CASE v.k = "str" -> v.t
      [] v.k = "none" -> <<"None">>
      [] v.k = "num" -> <<ToString(v.n)>>
      [] v.k = "bool" -> IF v.n = 1 THEN <<"True">> ELSE <<"False">>
      [] OTHER -> <<"[]">>

\* f"{x}" for a float held in tenths
FmtNum(x) == ToString(x)

\* float(v): [ok, v]; ok = FALSE is ValueError (a string) or TypeError
FloatOf(v) ==
    CASE v.k = "num" -> [ok |-> TRUE, v |-> v.n]
      [] v.k = "bool" -> [ok |-> TRUE, v |-> v.n * 10]
      [] v.k = "str" ->
            IF Len(v.t) = 1 /\ IsNumeral(v.t[1])
            THEN [ok |-> TRUE, v |-> Numerals[v.t[1]].v]
            ELSE [ok |-> FALSE, v |-> 0]
      [] OTHER -> [ok |-> FALSE, v |-> 0]

\* truncation toward zero of a value in tenths, in whole units
Trunc(x) == IF x >= 0 THEN x \div 10 ELSE -((-x) \div 10)

\* int(v): [ok, v] with v in whole units
IntOf(v) ==
    CASE v.k = "num" -> [ok |-> TRUE, v |-> Trunc(v.n)]
      [] v.k = "bool" -> [ok |-> TRUE, v |-> v.n]
      [] v.k = "str" ->
            IF Len(v.t) = 1 /\ IsNumeral(v.t[1]) /\ Numerals[v.t[1]].int
            THEN [ok |-> TRUE, v |-> Numerals[v.t[1]].v \div 10]
            ELSE [ok |-> FALSE, v |-> 0]
      [] OTHER -> [ok |-> FALSE, v |-> 0]

\* s.replace('%', '').strip()
StripPercent(s) == SelectSeq(s, LAMBDA w : w # "%")

-----------------------------------------------------------------------------
(* Product categories *)

CREDIT_CARDS == "credit_cards"
FIXED_DEPOSITS == "fixed_deposits"
MUTUAL_FUNDS == "mutual_funds"
INSURANCE == "insurance"
LOANS == "loans"

\* list(ProductCategory)
ProductCategory == <<CREDIT_CARDS, FIXED_DEPOSITS, MUTUAL_FUNDS, INSURANCE, LOANS>>

\* the keys of the manager's processors, data_loaders and rankers maps
Implemented == {CREDIT_CARDS, FIXED_DEPOSITS, MUTUAL_FUNDS}

\* a number of score points, in thousandths
Pts(points) == points * 1000

\* max_score = 100.0
MaxScore == Pts(100)

-----------------------------------------------------------------------------
(* Fixed deposit processor *)

FDKeys == {"bank_name", "bank", "about", "roi_in_percentage_min_tenure",
           "roi_in_percentage_max_tenure",
           "roi_in_percentage_senior_citizen_max_tenure",
           "tenure_from_days", "tenure_to_days"}

\* a raw fixed-deposit record (a JSON object) from the fields it holds
FDRaw(fields) ==
    [map |-> TRUE,
     f |-> [key \in FDKeys |-> IF key \in DOMAIN fields THEN fields[key] ELSE Absent]]

\* FixedDepositProcessor._parse_rate
ParseRate(rate_str) ==
    IF ~Truthy(rate_str) THEN NoVal
    ELSE LET r == FloatOf(Str(StripPercent(StrOf(rate_str))))
         IN  IF r.ok THEN Some(r.v) ELSE NoVal

ExtractMinInterestRate(raw) == ParseRate(Get(raw.f, "roi_in_percentage_min_tenure", None))
ExtractMaxInterestRate(raw) == ParseRate(Get(raw.f, "roi_in_percentage_max_tenure", None))
ExtractSeniorCitizenRate(raw) ==
    ParseRate(Get(raw.f, "roi_in_percentage_senior_citizen_max_tenure", None))

\* f"{days / 365:.1f} years": the whole part, the tenths digit and the unit are
\* separate tokens, so that '5 years' is found in '1.5 years' as Python finds it
YearsText(days) ==
    LET tenths == ((days * 100) \div 365 + 5) \div 10
    IN  <<ToString(tenths \div 10), ToString(tenths % 10), "years">>

\* f"{days} days": a number ending in 7, 15 or 30 is split before that ending,
\* so that '7 days', '15 days' and '30 days' are found as Python finds them
DaysText(days) ==
    IF days > 0 /\ days % 100 \in {15, 30}
    THEN <<ToString(days \div 100), ToString(days % 100), "days">>
    ELSE IF days > 0 /\ days % 10 = 7
    THEN <<ToString(days \div 10), "7", "days">>
    ELSE <<ToString(days), "days">>

\* FixedDepositProcessor._extract_features (the value; FDProcessExc says when it raises)
FDExtractFeatures(raw) ==
    LET max_rate == ExtractMaxInterestRate(raw)
        senior_rate == ExtractSeniorCitizenRate(raw)
        tenure_from == Get(raw.f, "tenure_from_days", None)
        days == IntOf(tenure_from).v
        f1 == IF OptTruthy(max_rate)
              THEN << <<"Interest", "rate", "up", "to", FmtNum(max_rate.v)>> >>
              ELSE <<>>
        f2 == IF OptTruthy(senior_rate) /\ OptTruthy(max_rate) /\ senior_rate.v > max_rate.v
              THEN << <<"Senior", "citizen", "rate", FmtNum(senior_rate.v)>> >>
              ELSE <<>>
        f3 == IF Truthy(tenure_from)
              THEN IF days >= 365
                   THEN << <<"Minimum", "tenure">> \o YearsText(days) >>
                   ELSE << <<"Minimum", "tenure">> \o DaysText(days) >>
              ELSE <<>>
    IN  f1 \o f2 \o f3

\* the exception FixedDepositProcessor.process_product raises, "none" if it returns
FDProcessExc(raw) ==
    LET tenure_from == Get(raw.f, "tenure_from_days", None)
        tenure_to == Get(raw.f, "tenure_to_days", None)
        bad(v) == Truthy(v) /\ ~IntOf(v).ok
        exc(v) == IF v.k = "str" THEN "ValueError" ELSE "TypeError"
    IN  IF ~raw.map THEN "AttributeError"
        ELSE IF bad(tenure_from) THEN exc(tenure_from)
        ELSE IF bad(tenure_to) THEN exc(tenure_to)
        ELSE "none"

\* FixedDepositProcessor.process_product
FDProcessProduct(raw) ==
    LET bank_name == Get(raw.f, "bank_name", Get(raw.f, "bank", Str(<<"Unknown", "Bank">>)))
        name == StrOf(bank_name) \o <<"Fixed", "Deposit">>
        tenure_from == Get(raw.f, "tenure_from_days", None)
        tenure_to == Get(raw.f, "tenure_to_days", None)
    IN  [category |-> FIXED_DEPOSITS,
         id |-> <<"fd">> \o name,
         name |-> name,
         description |-> Get(raw.f, "about", Str(<<>>)),
         features |-> FDExtractFeatures(raw),
         bank_name |-> bank_name,
         interest_rate_min |-> ExtractMinInterestRate(raw),
         interest_rate_max |-> ExtractMaxInterestRate(raw),
         senior_citizen_rate |-> ExtractSeniorCitizenRate(raw),
         tenure_from_days |-> IF Truthy(tenure_from) THEN Some(IntOf(tenure_from).v) ELSE NoVal,
         tenure_to_days |-> IF Truthy(tenure_to) THEN Some(IntOf(tenure_to).v) ELSE NoVal]

FDReputableBanks == {<<"sbi">>, <<"hdfc">>, <<"icici">>, <<"axis">>, <<"kotak">>, <<"pnb">>}

\* the exception FixedDepositProcessor.calculate_score raises, "none" if it returns
FDScoreExc(product, user_preferences) ==
    IF product.bank_name.k # "str" THEN "AttributeError" ELSE "none"

\* FixedDepositProcessor.calculate_score, in thousandths
FDCalculateScore(product, user_preferences) ==
    LET rate == IF OptTruthy(product.interest_rate_max)
                THEN PyMin(product.interest_rate_max.v * 8 * 100, Pts(50))
                ELSE 0
        senior == IF OptTruthy(product.senior_citizen_rate) /\ OptTruthy(product.interest_rate_max)
                  THEN IF product.senior_citizen_rate.v > product.interest_rate_max.v
                       THEN Pts(20)
                       ELSE Pts(10)
                  ELSE 0
        tenure_range == product.tenure_to_days.v - product.tenure_from_days.v
        tenure == IF OptTruthy(product.tenure_from_days) /\ OptTruthy(product.tenure_to_days)
                  THEN IF tenure_range > 1000 THEN Pts(20)
                       ELSE IF tenure_range > 365 THEN Pts(15)
                       ELSE Pts(10)
                  ELSE 0
        bank == IF ContainsAny(Lower(product.bank_name.t), FDReputableBanks)
                THEN Pts(10)
                ELSE Pts(5)
    IN  PyMin(rate + senior + tenure + bank, MaxScore)

-----------------------------------------------------------------------------
(* Credit card processor *)

CCKeys == {"name", "bank", "issuer", "description", "features", "annual_fee"}

\* a raw credit-card record (a JSON object) from the fields it holds
CCRaw(fields) ==
    [map |-> TRUE,
     f |-> [key \in CCKeys |-> IF key \in DOMAIN fields THEN fields[key] ELSE Absent]]

\* a regular-expression pattern is a token sequence; "#" stands for the
\* captured group (\d+(?:\.\d+)?), "Rs" for the rupee sign
PatMatch(text, i, pat) ==
    /\ i + Len(pat) - 1 <= Len(text)
    /\ \A j \in 1..Len(pat) :
          IF pat[j] = "#" THEN IsNumeral(text[i + j - 1]) ELSE text[i + j - 1] = pat[j]

\* the position of "#" in a pattern
GroupAt(pat) == CHOOSE j \in 1..Len(pat) : pat[j] = "#"

\* the value re.findall captures at position i; \d+ never takes a sign
Captured(text, i, pat) == Abs(Numerals[text[i + GroupAt(pat) - 1]].v)

\* the positions at which re.findall(pat, text) matches
MatchPositions(text, pat) == {i \in 1..Len(text) : PatMatch(text, i, pat)}

SetMax(S) == CHOOSE x \in S : \A y \in S : y <= x
SetMin(S) == CHOOSE x \in S : \A y \in S : x <= y

CashbackPatterns == {<<"#", "%", "cashback">>, <<"earn", "#", "%">>,
                     <<"#", "percent", "cashback">>}

\* CreditCardProcessor._extract_cashback_rate
ExtractCashbackRate(raw) ==
    LET description == Get(raw.f, "description", Str(<<>>))
        text == Lower(description.t)
        rates == {Captured(text, i, pat) :
                     <<i, pat>> \in {<<i, pat>> \in (1..Len(text)) \X CashbackPatterns :
                                        PatMatch(text, i, pat)}}
    IN  IF Truthy(description) /\ rates # {} THEN Some(SetMax(rates)) ELSE NoVal

\* the fee patterns in the order the code tries them; the optional rupee sign
\* of a pattern gives two token patterns
FeePatterns == << {<<"annual", "fee", "#">>, <<"annual", "fee", "Rs", "#">>},
                  {<<"Rs", "#", "annual", "fee">>},
                  {<<"joining", "fee", "#">>, <<"joining", "fee", "Rs", "#">>} >>

\* re.findall(pattern, text)[0] for the k-th fee pattern: [some, v]
FirstFeeMatch(text, k) ==
    LET hits == {<<i, pat>> \in (1..Len(text)) \X FeePatterns[k] : PatMatch(text, i, pat)}
        first == CHOOSE h \in hits : \A g \in hits : h[1] <= g[1]
    IN  IF hits = {} THEN NoVal ELSE Some(Captured(text, first[1], first[2]))

\* CreditCardProcessor._extract_annual_fee
ExtractAnnualFee(raw) ==
    LET explicit == FloatOf(raw.f["annual_fee"])
        description == Get(raw.f, "description", Str(<<>>))
        text == Lower(description.t)
    IN  IF raw.f["annual_fee"].k # "absent" /\ explicit.ok THEN Some(explicit.v)
        ELSE IF ~Truthy(description) THEN NoVal
        ELSE IF FirstFeeMatch(text, 1).some THEN FirstFeeMatch(text, 1)
        ELSE IF FirstFeeMatch(text, 2).some THEN FirstFeeMatch(text, 2)
        ELSE FirstFeeMatch(text, 3)

\* raw_data['features'] as the list features.extend() receives
RawFeatureList(v) ==
    IF v.k = "list" THEN v.l
    ELSE IF v.k = "str" THEN [i \in 1..Len(v.t) |-> <<v.t[i]>>]
    ELSE <<>>

\* features[:10]
Take(s, n) == IF Len(s) <= n THEN s ELSE SubSeq(s, 1, n)

\* CreditCardProcessor._extract_features
CCExtractFeatures(raw) ==
    LET explicit == IF Truthy(raw.f["features"]) THEN RawFeatureList(raw.f["features"]) ELSE <<>>
        description == Get(raw.f, "description", Str(<<>>))
        text == Lower(description.t)
        hits == MatchPositions(text, <<"#", "%", "cashback">>)
        best == SetMax({Captured(text, i, <<"#", "%", "cashback">>) : i \in hits})
        f1 == IF hits # {} THEN << <<"Up", "to", FmtNum(best), "%", "cashback">> >> ELSE <<>>
        f2 == IF Contains(text, <<"fuel", "surcharge">>)
              THEN << <<"Fuel", "surcharge", "waiver">> >> ELSE <<>>
        f3 == IF Contains(text, <<"lounge">>)
              THEN << <<"Airport", "lounge", "access">> >> ELSE <<>>
        f4 == IF Contains(text, <<"welcome">>)
              THEN << <<"Welcome", "benefits">> >> ELSE <<>>
    IN  Take(explicit \o (IF Truthy(description) THEN f1 \o f2 \o f3 \o f4 ELSE <<>>), 10)

\* CreditCardProcessor._extract_welcome_benefit
ExtractWelcomeBenefit(raw) ==
    LET description == Get(raw.f, "description", Str(<<>>))
    IN  IF Truthy(description) /\ Contains(Lower(description.t), <<"welcome">>)
        THEN Str(description.t)
        ELSE None

\* description + ' ' + ' '.join(features), lowered
CCBenefitText(raw) ==
    Lower(Get(raw.f, "description", Str(<<>>)).t
          \o JoinTexts(RawFeatureList(Get(raw.f, "features", List(<<>>)))))

\* a waiver found wherever the text mentions fuel
HasFuelKeyword(raw) == Contains(CCBenefitText(raw), <<"fuel">>)

\* CreditCardProcessor._has_fuel_surcharge_waiver
HasFuelSurchargeWaiver(raw) ==
    \/ Contains(CCBenefitText(raw), <<"fuel", "surcharge">>)
    \/ Contains(CCBenefitText(raw), <<"fuel", "waiver">>)

\* CreditCardProcessor._has_lounge_access
HasLoungeAccess(raw) ==
    \/ Contains(CCBenefitText(raw), <<"lounge">>)
    \/ Contains(CCBenefitText(raw), <<"airport", "access">>)

\* the exception CreditCardProcessor.process_product raises, "none" if it returns
CCProcessExc(raw) ==
    LET name == Get(raw.f, "name", Str(<<>>))
        description == Get(raw.f, "description", Str(<<>>))
        features == raw.f["features"]
    IN  IF ~raw.map THEN "AttributeError"
        ELSE IF name.k # "str" THEN "AttributeError"
        ELSE IF Truthy(features) /\ features.k \notin {"list", "str"} THEN "TypeError"
        ELSE IF Truthy(description) /\ description.k # "str" THEN "AttributeError"
        ELSE IF description.k # "str" THEN "TypeError"
        ELSE IF features.k \notin {"absent", "list", "str"} THEN "TypeError"
        ELSE "none"

\* CreditCardProcessor.process_product
CCProcessProduct(raw) ==
    LET name == Get(raw.f, "name", Str(<<>>)).t
    IN  [category |-> CREDIT_CARDS,
         id |-> <<"cc">> \o name,
         name |-> name,
         description |-> Get(raw.f, "description", Str(<<>>)),
         features |-> CCExtractFeatures(raw),
         bank |-> Get(raw.f, "bank", Get(raw.f, "issuer", Str(<<"Unknown", "Bank">>))),
         annual_fee |-> ExtractAnnualFee(raw),
         cashback_rate |-> ExtractCashbackRate(raw),
         welcome_benefit |-> ExtractWelcomeBenefit(raw),
         fuel_surcharge_waiver |-> HasFuelSurchargeWaiver(raw),
         lounge_access |-> HasLoungeAccess(raw)]

CCReputableBanks == {<<"sbi">>, <<"hdfc">>, <<"icici">>, <<"axis">>, <<"kotak">>}

\* the exception CreditCardProcessor.calculate_score raises, "none" if it returns
CCScoreExc(product, user_preferences) ==
    IF product.bank.k # "str" THEN "AttributeError" ELSE "none"

\* the cashback points without their cap
CCCashbackUncapped(product) ==
    IF OptTruthy(product.cashback_rate) THEN product.cashback_rate.v * 5 * 100 ELSE 0

\* CreditCardProcessor.calculate_score, the cashback rate scoring
CCCashbackPoints(product) ==
    IF OptTruthy(product.cashback_rate)
    THEN PyMin(product.cashback_rate.v * 5 * 100, Pts(30))
    ELSE 0

\* the fee points when an unknown fee is scored as the highest fee
CCFeePointsUnknownWorst(product) ==
    IF product.annual_fee.some
    THEN IF product.annual_fee.v = 0 THEN Pts(25)
         ELSE IF product.annual_fee.v <= 5000 THEN Pts(20)
         ELSE IF product.annual_fee.v <= 20000 THEN Pts(10)
         ELSE Pts(5)
    ELSE Pts(5)

\* CreditCardProcessor.calculate_score, the annual fee scoring
CCFeePoints(product) ==
    IF product.annual_fee.some
    THEN IF product.annual_fee.v = 0 THEN Pts(25)
         ELSE IF product.annual_fee.v <= 5000 THEN Pts(20)
         ELSE IF product.annual_fee.v <= 20000 THEN Pts(10)
         ELSE Pts(5)
    ELSE Pts(15)

\* CreditCardProcessor.calculate_score, in thousandths
CCCalculateScore(product, user_preferences) ==
    LET cashback == CCCashbackPoints(product)
        fee == CCFeePoints(product)
        benefit_score == (IF product.fuel_surcharge_waiver THEN 5 ELSE 0)
                         + (IF product.lounge_access THEN 10 ELSE 0)
                         + (IF Truthy(product.welcome_benefit) THEN 5 ELSE 0)
        benefits == Pts(PyMin(benefit_score, 20))
        features == Pts(PyMin(Len(product.features) * 2, 15))
        bank == IF ContainsAny(Lower(product.bank.t), CCReputableBanks)
                THEN Pts(10)
                ELSE Pts(5)
    IN  PyMin(cashback + fee + benefits + features + bank, MaxScore)

-----------------------------------------------------------------------------
(* User preferences *)

PrefKeys == {"risk_tolerance", "investment_goal", "investment_horizon",
             "investment_type", "spending_categories", "income_range",
             "investment_tenure", "investment_amount", "is_senior_citizen",
             "max_annual_fee", "credit_cards_source", "fixed_deposits_source",
             "mutual_funds_source"}

\* a preference map from the keys it holds
Prefs(fields) ==
    [key \in PrefKeys |-> IF key \in DOMAIN fields THEN fields[key] ELSE Absent]

\* {}
NoPrefs == [key \in PrefKeys |-> Absent]

-----------------------------------------------------------------------------
(* Mutual fund processor *)

MFKeys == {"name", "description", "returns_1y", "returns_3y", "returns_5y", "nav",
           "aum", "expense_ratio", "min_investment", "rating", "holdings",
           "sector_allocation", "amc", "category", "risk_level", "fund_manager",
           "inception_date"}

\* a raw mutual-fund record (a JSON object) from the fields it holds
MFRaw(fields) ==
    [map |-> TRUE,
     f |-> [key \in MFKeys |-> IF key \in DOMAIN fields THEN fields[key] ELSE Absent]]

\* MutualFundProcessor._extract_return_percentage
ExtractReturnPercentage(return_str) ==
    IF ~Truthy(return_str) THEN NoVal
    ELSE LET r == FloatOf(Str(StripPercent(StrOf(return_str))))
         IN  IF r.ok THEN Some(r.v) ELSE NoVal

\* MutualFundProcessor._safe_float_conversion
SafeFloatConversion(value) ==
    IF value.k = "none" THEN NoVal
    ELSE IF FloatOf(value).ok THEN Some(FloatOf(value).v) ELSE NoVal

\* MutualFundProcessor._safe_int_conversion
SafeIntConversion(value) ==
    IF value.k = "none" THEN 0
    ELSE IF IntOf(value).ok THEN IntOf(value).v ELSE 0

\* MutualFundProcessor._extract_features
MFExtractFeatures(raw) ==
    LET item(key, label, tail) ==
            IF Truthy(Get(raw.f, key, None))
            THEN << label \o StrOf(raw.f[key]) \o tail >>
            ELSE <<>>
    IN  item("returns_3y", <<"3Y", "Returns">>, <<>>)
        \o item("returns_5y", <<"5Y", "Returns">>, <<>>)
        \o item("rating", <<"Rating">>, <<"5", "stars">>)
        \o item("risk_level", <<"Risk">>, <<>>)
        \o item("expense_ratio", <<"Expense", "Ratio">>, <<"%">>)
        \o item("min_investment", <<"Min", "Investment", "Rs">>, <<>>)
        \o item("fund_manager", <<"Fund", "Manager">>, <<>>)

\* the exception MutualFundProcessor.process_product raises, "none" if it returns
MFProcessExc(raw) ==
    IF ~raw.map THEN "AttributeError"
    ELSE IF Get(raw.f, "name", Str(<<>>)).k # "str" THEN "AttributeError"
    ELSE "none"

\* MutualFundProcessor.process_product
MFProcessProduct(raw) ==
    LET name == Get(raw.f, "name", Str(<<>>)).t
        orEmpty(key) == IF Truthy(Get(raw.f, key, None)) THEN raw.f[key] ELSE List(<<>>)
    IN  [category |-> MUTUAL_FUNDS,
         id |-> <<"mf">> \o name,
         name |-> name,
         description |-> Get(raw.f, "description", Str(<<>>)),
         features |-> MFExtractFeatures(raw),
         amc |-> Get(raw.f, "amc", Str(<<"Unknown">>)),
         risk_level |-> Get(raw.f, "risk_level", Str(<<"Unknown">>)),
         rating |-> SafeIntConversion(Get(raw.f, "rating", Num(0))),
         returns_1y |-> ExtractReturnPercentage(Get(raw.f, "returns_1y", None)),
         returns_3y |-> ExtractReturnPercentage(Get(raw.f, "returns_3y", None)),
         returns_5y |-> ExtractReturnPercentage(Get(raw.f, "returns_5y", None)),
         nav |-> SafeFloatConversion(Get(raw.f, "nav", None)),
         aum |-> SafeFloatConversion(Get(raw.f, "aum", None)),
         expense_ratio |-> SafeFloatConversion(Get(raw.f, "expense_ratio", None)),
         min_investment |-> SafeFloatConversion(Get(raw.f, "min_investment", None)),
         fund_manager |-> Get(raw.f, "fund_manager", None),
         inception_date |-> Get(raw.f, "inception_date", None),
         holdings |-> orEmpty("holdings"),
         sector_allocation |-> orEmpty("sector_allocation")]

\* score * weight for a weight given in hundredths
Weighted(score, weight) == (score * weight) \div 100

\* the performance score when a return of 0 is passed over like a missing one
CalculatePerformanceScoreNonZero(product) ==
    LET score == IF OptTruthy(product.returns_5y)
                 THEN PyMin(product.returns_5y.v * 2 * 100, Pts(50))
                 ELSE IF OptTruthy(product.returns_3y)
                 THEN PyMin(product.returns_3y.v * 150, Pts(40))
                 ELSE IF OptTruthy(product.returns_1y)
                 THEN PyMin(product.returns_1y.v * 100, Pts(30))
                 ELSE 0
    IN  PyMin(score, Pts(50))

\* MutualFundProcessor._calculate_performance_score, in thousandths
CalculatePerformanceScore(product) ==
    LET score == IF product.returns_5y.some
                 THEN PyMin(product.returns_5y.v * 2 * 100, Pts(50))
                 ELSE IF product.returns_3y.some
                 THEN PyMin(product.returns_3y.v * 150, Pts(40))
                 ELSE IF product.returns_1y.some
                 THEN PyMin(product.returns_1y.v * 100, Pts(30))
                 ELSE 0
    IN  PyMin(score, Pts(50))

\* a rating score that is not scaled to 25 points
CalculateRatingScoreUnscaled(rating) ==
    IF rating <= 0 THEN 0 ELSE rating * Pts(25)

\* MutualFundProcessor._calculate_rating_score, in thousandths
CalculateRatingScore(rating) ==
    IF rating <= 0 THEN 0 ELSE (rating * Pts(25)) \div 5

\* the risk_mapping table of _calculate_risk_score; 3 when the text is unmapped
RiskMapping(text) ==
    CASE text = <<"low", "risk">> -> 1
      [] text = <<"low", "to", "moderate", "risk">> -> 2
      [] text = <<"moderate", "risk">> -> 3
      [] text = <<"moderately", "high", "risk">> -> 4
      [] text = <<"high", "risk">> -> 5
      [] text = <<"very", "high", "risk">> -> 6
      [] OTHER -> 3

\* the exception MutualFundProcessor._calculate_risk_score raises
CalculateRiskScoreExc(risk_level, user_preferences) ==
    IF risk_level.k # "str" THEN "AttributeError"
    ELSE IF Get(user_preferences, "risk_tolerance", Str(<<"moderate", "risk">>)).k # "str"
    THEN "AttributeError"
    ELSE "none"

\* the risk score when the texts are looked up as written, not lowered
CalculateRiskScoreAsWritten(risk_level, user_preferences) ==
    LET user_risk_tolerance ==
            Get(user_preferences, "risk_tolerance", Str(<<"moderate", "risk">>))
        risk_diff == Abs(RiskMapping(risk_level.t) - RiskMapping(user_risk_tolerance.t))
    IN  IF risk_diff = 0 THEN 20
        ELSE IF risk_diff = 1 THEN 15
        ELSE IF risk_diff = 2 THEN 10
        ELSE 5

\* MutualFundProcessor._calculate_risk_score, in points
CalculateRiskScore(risk_level, user_preferences) ==
    LET user_risk_tolerance ==
            Get(user_preferences, "risk_tolerance", Str(<<"moderate", "risk">>))
        product_risk == RiskMapping(Lower(risk_level.t))
        user_risk == RiskMapping(Lower(user_risk_tolerance.t))
        risk_diff == Abs(product_risk - user_risk)
    IN  IF risk_diff = 0 THEN 20
        ELSE IF risk_diff = 1 THEN 15
        ELSE IF risk_diff = 2 THEN 10
        ELSE 5

\* MutualFundProcessor._calculate_expense_score, in points
CalculateExpenseScore(expense_ratio) ==
    IF ~expense_ratio.some THEN 5
    ELSE IF expense_ratio.v <= 5 THEN 10
    ELSE IF expense_ratio.v <= 10 THEN 8
    ELSE IF expense_ratio.v <= 15 THEN 6
    ELSE IF expense_ratio.v <= 20 THEN 4
    ELSE 2

\* len(v) for a str or a list
LenOf(v) == IF v.k = "str" THEN Len(v.t) ELSE Len(v.l)

\* MutualFundProcessor._calculate_stability_score, in points
CalculateStabilityScore(product) ==
    (IF product.aum.some
     THEN IF product.aum.v >= 100000 THEN 3
          ELSE IF product.aum.v >= 50000 THEN 2
          ELSE IF product.aum.v >= 10000 THEN 1
          ELSE 0
     ELSE 0)
    + (IF Truthy(product.fund_manager) THEN 1 ELSE 0)
    + (IF LenOf(product.holdings) > 50 THEN 1 ELSE 0)

\* the exception MutualFundProcessor.calculate_score raises, "none" if it returns
MFScoreExc(product, user_preferences) ==
    IF CalculateRiskScoreExc(product.risk_level, user_preferences) # "none"
    THEN CalculateRiskScoreExc(product.risk_level, user_preferences)
    ELSE IF product.holdings.k \notin {"str", "list"} THEN "TypeError"
    ELSE "none"

\* MutualFundProcessor.calculate_score, in thousandths
MFCalculateScore(product, user_preferences) ==
    LET performance_score == CalculatePerformanceScore(product)
        rating_score == CalculateRatingScore(product.rating)
        risk_score == Pts(CalculateRiskScore(product.risk_level, user_preferences))
        expense_score == Pts(CalculateExpenseScore(product.expense_ratio))
        stability_score == Pts(CalculateStabilityScore(product))
    IN  PyMin(Weighted(performance_score, 40) + Weighted(rating_score, 25)
              + Weighted(risk_score, 20) + Weighted(expense_score, 10)
              + Weighted(stability_score, 5), MaxScore)

-----------------------------------------------------------------------------
(* The processors of the manager, by category *)

\* processor.process_product raising
ProcessExc(category, raw) ==
    CASE category = CREDIT_CARDS -> CCProcessExc(raw)
      [] category = FIXED_DEPOSITS -> FDProcessExc(raw)
      [] OTHER -> MFProcessExc(raw)

\* processor.process_product
ProcessProduct(category, raw) ==
    CASE category = CREDIT_CARDS -> CCProcessProduct(raw)
      [] category = FIXED_DEPOSITS -> FDProcessProduct(raw)
      [] OTHER -> MFProcessProduct(raw)

\* processor.calculate_score raising
ScoreExc(category, product, user_preferences) ==
    CASE category = CREDIT_CARDS -> CCScoreExc(product, user_preferences)
      [] category = FIXED_DEPOSITS -> FDScoreExc(product, user_preferences)
      [] OTHER -> MFScoreExc(product, user_preferences)

\* a score that gives a senior citizen's fixed deposit one more point
CalculateScoreForSenior(category, product, user_preferences) ==
    CASE category = CREDIT_CARDS -> CCCalculateScore(product, user_preferences)
      [] category = FIXED_DEPOSITS ->
            FDCalculateScore(product, user_preferences)
                + (IF Truthy(user_preferences["is_senior_citizen"]) THEN Pts(1) ELSE 0)
      [] OTHER -> MFCalculateScore(product, user_preferences)

\* processor.calculate_score
CalculateScore(category, product, user_preferences) ==
    CASE category = CREDIT_CARDS -> CCCalculateScore(product, user_preferences)
      [] category = FIXED_DEPOSITS -> FDCalculateScore(product, user_preferences)
      [] OTHER -> MFCalculateScore(product, user_preferences)

-----------------------------------------------------------------------------
(* Rankers.  A boost is a fraction of 1 held in thousandths (0.3 is 300), so *)
(* boost * multiplier is a number of points in thousandths.                  *)

\* f"{score:.1f}": the score rounded to one decimal, as a token
FmtScore(score) == ToString((score + 50) \div 100)

\* ScoredProduct(product, score, reasoning)
ScoredProduct(product, score, reasoning) ==
    [product |-> product, score |-> score, reasoning |-> reasoning]

\* (product.name + " " + " ".join(product.features)).lower()
ProductText(product) == Lower(product.name \o JoinTexts(product.features))

\* " ".join(product.features).lower()
FeatureText(product) == Lower(JoinTexts(product.features))

\* any(word in product.name.lower() for word in query_lower.split())
NameMatchesQuery(product, query) ==
    \E i \in 1..Len(query) : Contains(Lower(product.name), <<Lower(query)[i]>>)

RECURSIVE SumOver(_, _)
\* sum(f[x] for x in S)
SumOver(f, S) ==
    IF S = {} THEN 0
    ELSE LET x == CHOOSE y \in S : TRUE IN f[x] + SumOver(f, S \ {x})

\* sorted(s, key=lambda x: x.score, reverse=True): stable insertion of e
InsertDesc(e, sorted) ==
    LET before == {i \in 1..Len(sorted) : sorted[i].score >= e.score}
        k == IF before = {} THEN 0 ELSE SetMax(before)
    IN  SubSeq(sorted, 1, k) \o <<e>> \o SubSeq(sorted, k + 1, Len(sorted))

\* a sort that returns the list as it is given
SortedDescUnsorted(s) == s

RECURSIVE SortedDesc(_)
\* sorted(s, key=lambda x: x.score, reverse=True)
SortedDesc(s) ==
    IF s = <<>> THEN <<>>
    ELSE With(SortedDesc(SubSeq(s, 1, Len(s) - 1)),
              LAMBDA sorted : InsertDesc(s[Len(s)], sorted))

(* Credit card ranker *)

\* keyword_matches of CreditCardRanker._calculate_query_relevance: the
\* one-word keywords of each category (a query word never equals the others)
CCKeywordMatches ==
    { [category |-> <<"cashback">>, keywords |-> {"cashback", "rewards"}],
      [category |-> <<"travel">>, keywords |-> {"travel", "miles", "airline", "hotel"}],
      [category |-> <<"fuel">>, keywords |-> {"fuel", "petrol", "gas"}],
      [category |-> <<"dining">>, keywords |-> {"dining", "restaurant", "food"}],
      [category |-> <<"shopping">>, keywords |-> {"shopping", "online", "ecommerce"}],
      [category |-> <<"premium">>, keywords |-> {"premium", "luxury", "exclusive"}],
      [category |-> <<"no", "annual", "fee">>, keywords |-> {"free"}] }

\* CreditCardRanker._calculate_query_relevance
CCQueryRelevance(product, query) ==
    LET words == Lower(query)
        hits == {<<i, m>> \in (1..Len(words)) \X CCKeywordMatches :
                    words[i] \in m.keywords /\ Contains(FeatureText(product), m.category)}
        relevance == (IF NameMatchesQuery(product, query) THEN 300 ELSE 0)
                     + 100 * Cardinality(hits)
    IN  IF query = <<>> THEN 0 ELSE PyMin(relevance, 1000)

\* the exception CreditCardRanker._calculate_preference_alignment raises
CCPreferenceAlignmentExc(product, preferences) ==
    LET preferred == Get(preferences, "spending_categories", List(<<>>))
    IN  IF preferred.k \notin {"list", "str"} THEN "TypeError" ELSE "none"

\* CreditCardRanker._calculate_preference_alignment
CCPreferenceAlignment(product, preferences) ==
    LET income_range == preferences["income_range"]
        name == Lower(product.name)
        named(words) == \E w \in words : Contains(name, <<w>>)
        fee == IF preferences["max_annual_fee"].k \in {"absent", "none"} THEN 0
               ELSE IF Contains(FeatureText(product), <<"no", "annual", "fee">>) THEN 400
               ELSE IF Contains(FeatureText(product), <<"annual", "fee">>) THEN 200
               ELSE 0
        income == IF ~Truthy(income_range) THEN 0
                  ELSE IF income_range = Str(<<"premium">>)
                          /\ named({"premium", "privilege", "signature"}) THEN 300
                  ELSE IF income_range = Str(<<"mid">>)
                          /\ named({"select", "classic"}) THEN 300
                  ELSE IF income_range = Str(<<"entry">>)
                          /\ named({"student", "basic", "starter"}) THEN 300
                  ELSE 0
        preferred == RawFeatureList(Get(preferences, "spending_categories", List(<<>>)))
        spending == 100 * Cardinality({i \in 1..Len(preferred) :
                                          Contains(FeatureText(product), Lower(preferred[i]))})
    IN  PyMin(fee + income + spending, 1000)

\* high_value_categories of CreditCardRanker._calculate_category_optimization
HighValueCategories ==
    { [category |-> <<"travel">>, bonus |-> 300],
      [category |-> <<"dining">>, bonus |-> 200],
      [category |-> <<"fuel">>, bonus |-> 200],
      [category |-> <<"online", "shopping">>, bonus |-> 250],
      [category |-> <<"groceries">>, bonus |-> 150] }

\* CreditCardRanker._calculate_category_optimization
CCCategoryOptimization(product, preferences) ==
    LET found == {c \in HighValueCategories : Contains(FeatureText(product), c.category)}
    IN  PyMin(SumOver([c \in found |-> c.bonus], found), 1000)

\* the exception CreditCardRanker._calculate_enhanced_score raises
CCEnhancedScoreExc(sp, query, preferences) ==
    CCPreferenceAlignmentExc(sp.product, preferences)

\* an enhanced score that weighs the preferences by 5 and the query by 3
CCEnhancedScorePreferenceFirst(sp, query, preferences) ==
    PyMin(sp.score + CCQueryRelevance(sp.product, query) * 3
          + CCPreferenceAlignment(sp.product, preferences) * 5
          + CCCategoryOptimization(sp.product, preferences) * 2, MaxScore)

\* CreditCardRanker._calculate_enhanced_score
CCEnhancedScore(sp, query, preferences) ==
    PyMin(sp.score + CCQueryRelevance(sp.product, query) * 5
          + CCPreferenceAlignment(sp.product, preferences) * 3
          + CCCategoryOptimization(sp.product, preferences) * 2, MaxScore)

\* CreditCardRanker._generate_ranking_reasoning
CCRankingReasoning(sp, enhanced_score) ==
    LET score_improvement == enhanced_score - sp.score
    IN  sp.reasoning \o
        (IF score_improvement > Pts(3)
         THEN <<" Highly relevant to your query and preferences.">>
         ELSE IF score_improvement > Pts(1)
         THEN <<" Good match for your requirements.">>
         ELSE IF score_improvement > 0
         THEN <<" Partially matches your preferences.">>
         ELSE <<>>)

(* Fixed deposit ranker *)

\* tenure_keywords of FixedDepositRanker._calculate_tenure_alignment; the text
\* of a product only ever says "years", in which Python finds 'N year'
TenureKeywords(preferred_tenure) ==
    CASE preferred_tenure = Str(<<"short_term">>) ->
            {<<"7", "days">>, <<"15", "days">>, <<"30", "days">>, <<"1", "month">>,
             <<"3", "months">>, <<"6", "months">>}
      [] preferred_tenure = Str(<<"medium_term">>) ->
            {<<"1", "year">>, <<"1", "years">>, <<"2", "years">>, <<"3", "years">>,
             <<"18", "months">>}
      [] preferred_tenure = Str(<<"long_term">>) ->
            {<<"4", "years">>, <<"5", "years">>, <<"7", "years">>, <<"10", "years">>}
      [] OTHER -> {}

\* the exception FixedDepositRanker._calculate_tenure_alignment raises
\* (`preferred_tenure in tenure_keywords` hashes the value)
FDTenureAlignmentExc(product, preferences) ==
    LET preferred_tenure == Get(preferences, "investment_tenure", None)
    IN  IF Truthy(preferred_tenure) /\ preferred_tenure.k = "list"
        THEN "TypeError" ELSE "none"

\* FixedDepositRanker._calculate_tenure_alignment
FDTenureAlignment(product, preferences) ==
    LET preferred_tenure == Get(preferences, "investment_tenure", None)
        text == ProductText(product)
        alignment ==
            (IF ContainsAny(text, TenureKeywords(preferred_tenure)) THEN 500 ELSE 0)
            + (IF ContainsAny(text, {<<"flexible">>, <<"auto", "renewal">>,
                                     <<"premature", "withdrawal">>})
               THEN 300 ELSE 0)
    IN  IF ~Truthy(preferred_tenure) THEN 0 ELSE PyMin(alignment, 1000)

\* the exception FixedDepositRanker._calculate_amount_alignment raises
\* (`investment_amount >= 100000` on a value that is not a number)
FDAmountAlignmentExc(product, preferences) ==
    LET investment_amount == Get(preferences, "investment_amount", None)
    IN  IF Truthy(investment_amount) /\ investment_amount.k \notin {"num", "bool"}
        THEN "TypeError" ELSE "none"

\* FixedDepositRanker._calculate_amount_alignment; the amount is in tenths
FDAmountAlignment(product, preferences) ==
    LET investment_amount == Get(preferences, "investment_amount", None)
        amount == FloatOf(investment_amount).v
        text == FeatureText(product)
        alignment ==
            IF amount >= 1000000
            THEN IF ContainsAny(text, {<<"high", "value">>, <<"premium">>,
                                       <<"bulk", "deposit">>})
                 THEN 500 ELSE 0
            ELSE IF amount >= 250000
            THEN IF ContainsAny(text, {<<"regular">>, <<"standard">>}) THEN 400 ELSE 0
            ELSE IF ContainsAny(text, {<<"minimum">>, <<"small">>, <<"low", "amount">>})
                 THEN 400 ELSE 0
    IN  IF ~Truthy(investment_amount) THEN 0 ELSE PyMin(alignment, 1000)

\* FixedDepositRanker._calculate_senior_citizen_boost
FDSeniorCitizenBoost(product, preferences) ==
    LET is_senior_citizen == Get(preferences, "is_senior_citizen", Bool(FALSE))
        senior_keywords == {<<"senior", "citizen">>, <<"senior">>, <<"additional", "rate">>,
                            <<"extra", "interest">>, <<"higher", "rate", "for", "senior">>,
                            <<"bonus", "rate">>}
    IN  IF ~Truthy(is_senior_citizen) THEN 0
        ELSE PyMin(IF ContainsAny(ProductText(product), senior_keywords) THEN 300 ELSE 0,
                   1000)

\* fd_keywords of FixedDepositRanker._calculate_query_relevance
FDKeywords ==
    { [category |-> <<"high", "interest">>, keywords |-> {"high", "best", "maximum", "top"}],
      [category |-> <<"short", "term">>, keywords |-> {"short", "quick", "immediate"}],
      [category |-> <<"long", "term">>, keywords |-> {"long", "extended", "multi-year"}],
      [category |-> <<"flexible">>, keywords |-> {"flexible", "premature", "withdrawal"}],
      [category |-> <<"safe">>, keywords |-> {"safe", "secure", "guaranteed"}],
      [category |-> <<"senior", "citizen">>, keywords |-> {"senior", "citizen", "elderly"}] }

\* FixedDepositRanker._calculate_query_relevance: a query word counts once, for
\* the first category that lists it and is found in the product text
FDQueryRelevance(product, query) ==
    LET words == Lower(query)
        hits == {i \in 1..Len(words) :
                    \E c \in FDKeywords :
                        words[i] \in c.keywords /\ Contains(ProductText(product), c.category)}
        relevance == 200 * Cardinality(hits)
                     + (IF NameMatchesQuery(product, query) THEN 300 ELSE 0)
    IN  IF query = <<>> THEN 0 ELSE PyMin(relevance, 1000)

\* FixedDepositRanker._calculate_safety_boost
FDSafetyBoost(product) ==
    LET text == ProductText(product)
        safe_institutions == {<<"sbi">>, <<"state", "bank">>, <<"pnb">>,
                              <<"punjab", "national">>, <<"bank", "of", "baroda">>,
                              <<"canara", "bank">>, <<"union", "bank">>,
                              <<"indian", "bank">>, <<"government">>}
        safety ==
            (IF ContainsAny(text, safe_institutions) THEN 400 ELSE 0)
            + (IF ContainsAny(text, {<<"dicgc">>, <<"insured">>, <<"deposit", "insurance">>})
               THEN 300 ELSE 0)
            + (IF ContainsAny(text, {<<"aaa">>, <<"aa+">>, <<"stable", "rating">>})
               THEN 300 ELSE 0)
    IN  PyMin(safety, 1000)

\* the exception FixedDepositRanker._calculate_enhanced_score raises
FDEnhancedScoreExc(sp, query, preferences) ==
    IF FDTenureAlignmentExc(sp.product, preferences) # "none"
    THEN FDTenureAlignmentExc(sp.product, preferences)
    ELSE FDAmountAlignmentExc(sp.product, preferences)

\* FixedDepositRanker._calculate_enhanced_score
FDEnhancedScore(sp, query, preferences) ==
    PyMin(sp.score + FDTenureAlignment(sp.product, preferences) * 3
          + FDAmountAlignment(sp.product, preferences) * 2
          + FDSeniorCitizenBoost(sp.product, preferences) * 2
          + FDQueryRelevance(sp.product, query) * 2
          + FDSafetyBoost(sp.product) * 1, MaxScore)

\* FixedDepositRanker._generate_ranking_reasoning
FDRankingReasoning(sp, enhanced_score) ==
    LET score_improvement == enhanced_score - sp.score
    IN  sp.reasoning \o
        (IF score_improvement > Pts(2)
         THEN <<" Excellent match for your deposit requirements and risk profile.">>
         ELSE IF score_improvement > Pts(1)
         THEN <<" Good alignment with your investment preferences.">>
         ELSE IF score_improvement > 500
         THEN <<" Suitable option for your deposit needs.">>
         ELSE <<>>)

(* Mutual fund ranker *)

\* goal_category_mapping of MutualFundRanker._calculate_goal_alignment
GoalCategoryMapping(investment_goal) ==
    CASE investment_goal = <<"wealth", "creation">> ->
            {<<"equity">>, <<"growth">>, <<"large", "cap">>, <<"mid", "cap">>,
             <<"small", "cap">>}
      [] investment_goal = <<"retirement">> ->
            {<<"equity">>, <<"balanced">>, <<"hybrid">>, <<"retirement">>}
      [] investment_goal = <<"tax", "saving">> -> {<<"elss">>, <<"tax">>, <<"saving">>}
      [] investment_goal = <<"regular", "income">> ->
            {<<"debt">>, <<"income">>, <<"dividend">>, <<"monthly", "income">>}
      [] investment_goal = <<"capital", "preservation">> ->
            {<<"debt">>, <<"liquid">>, <<"ultra", "short">>, <<"low", "duration">>}
      [] investment_goal = <<"child", "education">> ->
            {<<"equity">>, <<"children">>, <<"education">>}
      [] investment_goal = <<"emergency", "fund">> ->
            {<<"liquid">>, <<"ultra", "short">>, <<"overnight">>}
      [] OTHER -> {}

\* the exception MutualFundRanker._calculate_goal_alignment raises:
\* preferences.get('investment_goal', '').lower() needs a string, and
\* getattr(product, 'category', '').lower() is called on the ProductCategory
\* member every product carries, which has no lower()
MFGoalAlignmentExc(product, preferences) ==
    LET investment_goal == Get(preferences, "investment_goal", Str(<<>>))
    IN  IF investment_goal.k # "str" THEN "AttributeError"
        ELSE IF investment_goal.t = <<>> THEN "none"
        ELSE "AttributeError"

\* MutualFundRanker._calculate_goal_alignment, when it returns
MFGoalAlignment(product, preferences) ==
    LET investment_goal == Lower(Get(preferences, "investment_goal", Str(<<>>)).t)
        relevant_categories == GoalCategoryMapping(investment_goal)
        alignment == IF \/ ContainsAny(Lower(product.name), relevant_categories)
                        \/ ContainsAny(FeatureText(product), relevant_categories)
                     THEN 300 ELSE 0
    IN  IF investment_goal = <<>> THEN 0 ELSE PyMin(alignment, 1000)

\* the exception MutualFundRanker._calculate_horizon_optimization raises
MFHorizonOptimizationExc(product, preferences) ==
    IF Get(preferences, "investment_horizon", Str(<<>>)).k # "str"
    THEN "AttributeError" ELSE "none"

\* optimization_score of _calculate_horizon_optimization after the time
\* horizon rules, in thousandths
HorizonRules(product, preferences) ==
    LET investment_horizon == Lower(Get(preferences, "investment_horizon", Str(<<>>)).t)
        text == ProductText(product)
    IN  IF investment_horizon \in {<<"short", "term">>, <<"1-3", "years">>}
        THEN IF ContainsAny(text, {<<"debt">>, <<"liquid">>, <<"short", "term">>,
                                   <<"conservative">>})
             THEN 500
             ELSE IF ContainsAny(text, {<<"equity">>, <<"aggressive">>}) THEN -200
             ELSE 0
        ELSE IF investment_horizon \in {<<"medium", "term">>, <<"3-7", "years">>}
        THEN IF ContainsAny(text, {<<"balanced">>, <<"hybrid">>, <<"moderate">>})
             THEN 500
             ELSE IF ContainsAny(text, {<<"large", "cap">>, <<"diversified">>}) THEN 300
             ELSE 0
        ELSE IF investment_horizon \in {<<"long", "term">>, <<"7+", "years">>}
        THEN IF ContainsAny(text, {<<"equity">>, <<"growth">>, <<"small", "cap">>,
                                   <<"mid", "cap">>})
             THEN 500
             ELSE IF ContainsAny(text, {<<"debt">>, <<"liquid">>}) THEN -100
             ELSE 0
        ELSE 0

\* a horizon optimization that returns the penalty as it is
MFHorizonOptimizationSigned(product, preferences) ==
    IF Get(preferences, "investment_horizon", Str(<<>>)).t = <<>> THEN 0
    ELSE HorizonRules(product, preferences)

\* MutualFundRanker._calculate_horizon_optimization
MFHorizonOptimization(product, preferences) ==
    IF Get(preferences, "investment_horizon", Str(<<>>)).t = <<>> THEN 0
    ELSE PyMax(HorizonRules(product, preferences), 0)

\* mf_keywords of MutualFundRanker._calculate_query_relevance: the words a
\* query word can equal, and the keywords looked for in the product text
MFKeywords ==
    { [words |-> {"sip", "systematic"}, keywords |-> {<<"sip">>, <<"systematic">>}],
      [words |-> {"elss", "tax"}, keywords |-> {<<"elss">>, <<"tax">>}],
      [words |-> {}, keywords |-> {<<"large", "cap">>, <<"blue", "chip">>}],
      [words |-> {}, keywords |-> {<<"small", "cap">>}],
      [words |-> {}, keywords |-> {<<"mid", "cap">>}],
      [words |-> {"debt", "bond"}, keywords |-> {<<"debt">>, <<"bond">>, <<"fixed", "income">>}],
      [words |-> {"equity", "stock"}, keywords |-> {<<"equity">>, <<"stock">>}],
      [words |-> {"balanced", "hybrid"}, keywords |-> {<<"balanced">>, <<"hybrid">>}],
      [words |-> {"sectoral", "thematic"}, keywords |-> {<<"sectoral">>, <<"thematic">>}],
      [words |-> {"index", "passive"}, keywords |-> {<<"index">>, <<"passive">>}] }

\* MutualFundRanker._calculate_query_relevance
MFQueryRelevance(product, query) ==
    LET words == Lower(query)
        hits == {i \in 1..Len(words) :
                    \E c \in MFKeywords :
                        words[i] \in c.words /\ ContainsAny(ProductText(product), c.keywords)}
        relevance == (IF NameMatchesQuery(product, query) THEN 300 ELSE 0)
                     + 200 * Cardinality(hits)
    IN  IF query = <<>> THEN 0 ELSE PyMin(relevance, 1000)

\* the exception MutualFundRanker._calculate_sip_suitability raises
MFSipSuitabilityExc(product, preferences) ==
    LET sip_preference == Get(preferences, "investment_type", Str(<<>>))
    IN  IF sip_preference.k # "str" THEN "AttributeError"
        ELSE IF ~Contains(Lower(sip_preference.t), <<"sip">>) THEN "none"
        ELSE IF product.risk_level.k # "str" THEN "AttributeError"
        ELSE "none"

\* MutualFundRanker._calculate_sip_suitability
MFSipSuitability(product, preferences) ==
    LET sip_preference == Lower(Get(preferences, "investment_type", Str(<<>>)).t)
        text == ProductText(product)
        sip == (IF ContainsAny(text, {<<"equity">>, <<"growth">>, <<"diversified">>})
                THEN 400 ELSE 0)
               + (IF ContainsAny(text, {<<"large", "cap">>, <<"diversified">>, <<"bluechip">>})
                  THEN 300 ELSE 0)
               - (IF Contains(Lower(product.risk_level.t), <<"very", "high">>)
                  THEN 100 ELSE 0)
    IN  IF ~Contains(sip_preference, <<"sip">>) THEN 0 ELSE PyMax(sip, 0)

\* the exception MutualFundRanker._calculate_enhanced_score raises
MFEnhancedScoreExc(sp, query, preferences) ==
    IF MFGoalAlignmentExc(sp.product, preferences) # "none"
    THEN MFGoalAlignmentExc(sp.product, preferences)
    ELSE IF MFHorizonOptimizationExc(sp.product, preferences) # "none"
    THEN MFHorizonOptimizationExc(sp.product, preferences)
    ELSE MFSipSuitabilityExc(sp.product, preferences)

\* MutualFundRanker._calculate_enhanced_score
MFEnhancedScore(sp, query, preferences) ==
    PyMin(sp.score + MFGoalAlignment(sp.product, preferences) * 4
          + MFHorizonOptimization(sp.product, preferences) * 3
          + MFQueryRelevance(sp.product, query) * 2
          + MFSipSuitability(sp.product, preferences) * 1, MaxScore)

\* MutualFundRanker._generate_ranking_reasoning
MFRankingReasoning(sp, enhanced_score) ==
    LET score_improvement == enhanced_score - sp.score
    IN  sp.reasoning \o
        (IF score_improvement > Pts(3)
         THEN <<" Excellent alignment with your investment goals and risk profile.">>
         ELSE IF score_improvement > 1500
         THEN <<" Good match for your investment strategy.">>
         ELSE IF score_improvement > 500
         THEN <<" Suitable for your investment preferences.">>
         ELSE <<>>)

(* The rankers of the manager, by category *)

\* ranker._calculate_enhanced_score raising
EnhancedScoreExc(category, sp, query, preferences) ==
    CASE category = CREDIT_CARDS -> CCEnhancedScoreExc(sp, query, preferences)
      [] category = FIXED_DEPOSITS -> FDEnhancedScoreExc(sp, query, preferences)
      [] OTHER -> MFEnhancedScoreExc(sp, query, preferences)

\* ranker._calculate_enhanced_score
EnhancedScore(category, sp, query, preferences) ==
    CASE category = CREDIT_CARDS -> CCEnhancedScore(sp, query, preferences)
      [] category = FIXED_DEPOSITS -> FDEnhancedScore(sp, query, preferences)
      [] OTHER -> MFEnhancedScore(sp, query, preferences)

\* a reasoning whose phrase is keyed to the enhanced score itself
RankingReasoningByScore(category, sp, enhanced_score) ==
    sp.reasoning \o
        (CASE category = CREDIT_CARDS ->
                CCRankingReasoning([sp EXCEPT !.score = 0, !.reasoning = <<>>], enhanced_score)
           [] category = FIXED_DEPOSITS ->
                FDRankingReasoning([sp EXCEPT !.score = 0, !.reasoning = <<>>], enhanced_score)
           [] OTHER ->
                MFRankingReasoning([sp EXCEPT !.score = 0, !.reasoning = <<>>], enhanced_score))

\* ranker._generate_ranking_reasoning
RankingReasoning(category, sp, enhanced_score) ==
    CASE category = CREDIT_CARDS -> CCRankingReasoning(sp, enhanced_score)
      [] category = FIXED_DEPOSITS -> FDRankingReasoning(sp, enhanced_score)
      [] OTHER -> MFRankingReasoning(sp, enhanced_score)

\* the exception ranker.rank_products raises: that of the first product whose
\* enhanced score cannot be computed, "none" if it returns
RankExc(category, products, query, preferences) ==
    LET raised(sp) == EnhancedScoreExc(category, sp, query, preferences) # "none"
        first == FirstWhere(products, raised)
    IN  IF first = 0 THEN "none"
        ELSE EnhancedScoreExc(category, products[first], query, preferences)

\* a ranking that marks each product down by its position in the batch
EnhancedProductsByPosition(category, products, query, preferences) ==
    LET enhanced_product(i) ==
            With(EnhancedScore(category, products[i], query, preferences) - Pts(i - 1),
                 LAMBDA enhanced_score :
                     ScoredProduct(products[i].product, enhanced_score,
                                   RankingReasoning(category, products[i], enhanced_score)))
    IN  MapSeq([i \in DOMAIN products |-> i], enhanced_product)

\* the enhanced_products list rank_products builds, in input order
EnhancedProducts(category, products, query, preferences) ==
    LET enhanced_product(sp) ==
            With(EnhancedScore(category, sp, query, preferences),
                 LAMBDA enhanced_score :
                     ScoredProduct(sp.product, enhanced_score,
                                   RankingReasoning(category, sp, enhanced_score)))
    IN  MapSeq(products, enhanced_product)

\* ranker.rank_products
RankProducts(category, products, query, preferences) ==
    IF products = <<>> THEN <<>>
    ELSE With(EnhancedProducts(category, products, query, preferences),
              LAMBDA enhanced_products : SortedDesc(enhanced_products))

-----------------------------------------------------------------------------
(* Scoring one raw record: the body of the per-record loop of               *)
(* _process_category, process_product followed by calculate_score           *)

NoProduct == [category |-> "none"]

\* process_product(raw) then calculate_score(product, user_preferences):
\* pexc / sexc are the exceptions of the two calls ("skipped" when the first
\* call raised and the second was never made)
ScoreRecord(category, raw, user_preferences) ==
    LET pexc == ProcessExc(category, raw)
        scored(product) ==
            LET sexc == IF pexc # "none" THEN "skipped"
                        ELSE ScoreExc(category, product, user_preferences)
            IN  [op |-> "score", category |-> category, raw |-> raw,
                 prefs |-> user_preferences, pexc |-> pexc, product |-> product,
                 sexc |-> sexc,
                 score |-> IF sexc = "none"
                           THEN CalculateScore(category, product, user_preferences)
                           ELSE 0]
    IN  With(IF pexc = "none" THEN ProcessProduct(category, raw) ELSE NoProduct, scored)

\* the raw records the scoring probe draws: every combination of these values
FDBankValues == {Str(<<"SBI">>), Str(<<"Unknown", "Finance">>), Absent, None}
FDMaxRateValues == {Absent, Str(<<"7.5">>), Str(<<"7.5", "%">>), Str(<<"-5">>),
                    Str(<<"abc">>), Num(0), Str(<<"0">>), Num(65)}
FDSeniorRateValues == {Absent, Str(<<"8.1">>), Str(<<"7.0">>), Str(<<"abc">>),
                       Str(<<"-5">>)}
FDTenureFromValues == {Absent, Num(3650), Str(<<"365">>), Str(<<"abc">>), Num(0), None}
FDTenureToValues == {Absent, Num(18250), Num(4000), Str(<<"36.5">>), Num(0)}

FDProbeRaws ==
    {FDRaw([bank_name |-> b, roi_in_percentage_max_tenure |-> m,
            roi_in_percentage_senior_citizen_max_tenure |-> sr,
            tenure_from_days |-> tf, tenure_to_days |-> tt]) :
        b \in FDBankValues, m \in FDMaxRateValues, sr \in FDSeniorRateValues,
        tf \in FDTenureFromValues, tt \in FDTenureToValues}

ExampleCardText == <<"Earn", "5", "%", "cashback", "on", "fuel", "lounge", "access",
                     "welcome", "bonus">>
FeeCardText == <<"2", "%", "cashback", "annual", "fee", "Rs", "1500", "Fuel",
                 "surcharge", "waiver">>
PlainFeatures == << <<"Travel", "rewards">>, <<"Fuel", "waiver">> >>
ManyFeatures == << <<"a">>, <<"b">>, <<"c">>, <<"d">>, <<"e">>, <<"f">>, <<"g">>,
                   <<"h">>, <<"i">> >>

CCNameValues == {Str(<<"Example", "Card">>), None, Absent}
CCBankValues == {Str(<<"HDFC">>), Absent, None}
CCDescriptionValues == {Absent, None, Str(ExampleCardText), Str(FeeCardText), Num(50)}
CCFeatureValues == {Absent, None, List(PlainFeatures), List(ManyFeatures)}
CCAnnualFeeValues == {Absent, Num(0), Num(-50), Str(<<"abc">>), Num(4000), Num(30000)}

CCProbeRaws ==
    {CCRaw([name |-> n, bank |-> b, description |-> d, features |-> f,
            annual_fee |-> a]) :
        n \in CCNameValues, b \in CCBankValues, d \in CCDescriptionValues,
        f \in CCFeatureValues, a \in CCAnnualFeeValues}

MFNameValues == {Str(<<"Equity", "Growth", "Fund">>), None}
MFRiskLevelValues == {Absent, Str(<<"Low", "Risk">>), Str(<<"Very", "High", "Risk">>), None}
MFRatingValues == {Absent, Num(40), Str(<<"abc">>), Num(10000)}
MFReturns5Values == {Absent, Str(<<"12.5", "%">>), Str(<<"-30", "%">>), Str(<<"abc">>)}
MFReturns3Values == {Absent, Str(<<"30">>)}
MFReturns1Values == {Absent, Str(<<"15">>)}
MFExpenseValues == {Absent, Num(5), Num(25), Str(<<"abc">>)}
MFStabilityValues ==
    {[aum |-> Absent, fund_manager |-> Absent, holdings |-> Absent],
     [aum |-> Num(120000), fund_manager |-> Str(<<"A">>), holdings |-> Absent],
     [aum |-> Num(60000), fund_manager |-> None, holdings |-> Num(500)]}

MFProbeRaws ==
    {MFRaw([name |-> n, risk_level |-> rl, rating |-> rt, returns_5y |-> r5,
            returns_3y |-> r3, returns_1y |-> r1, expense_ratio |-> e,
            aum |-> st.aum, fund_manager |-> st.fund_manager,
            holdings |-> st.holdings]) :
        n \in MFNameValues, rl \in MFRiskLevelValues, rt \in MFRatingValues,
        r5 \in MFReturns5Values, r3 \in MFReturns3Values, r1 \in MFReturns1Values,
        e \in MFExpenseValues, st \in MFStabilityValues}

\* the values the scoring probe gives the risk_tolerance preference
RiskToleranceValues == {Absent, None, Str(<<>>), List(<<>>), Str(<<"low", "risk">>),
                        Str(<<"High", "Risk">>)}

ScorePrefs == {Prefs([risk_tolerance |-> rt]) : rt \in RiskToleranceValues}

-----------------------------------------------------------------------------
(* Ranking one batch: rank_products on a list of scored products             *)

\* reasoning=f"Base score: {score:.1f}"
BaseReasoning(score) == <<"Base score: ", FmtScore(score)>>

\* the ScoredProduct _process_category builds for a raw record that scores
ScoredOf(category, raw, user_preferences) ==
    LET scored(product) ==
            With(CalculateScore(category, product, user_preferences),
                 LAMBDA score : ScoredProduct(product, score, BaseReasoning(score)))
    IN  With(ProcessProduct(category, raw), scored)

\* fixed deposits scoring 90, 85, 80, 70, 70 and 60, and the SBI deposit of the
\* specification's scenario
FD90 == FDRaw([bank_name |-> Str(<<"HDFC">>), roi_in_percentage_max_tenure |-> Str(<<"7.5">>),
               roi_in_percentage_senior_citizen_max_tenure |-> Str(<<"8.1">>),
               tenure_from_days |-> Num(3650), tenure_to_days |-> Num(4000)])
FD85 == FDRaw([bank_name |-> Str(<<"Unknown", "Finance">>),
               roi_in_percentage_max_tenure |-> Str(<<"7.5">>),
               roi_in_percentage_senior_citizen_max_tenure |-> Str(<<"8.1">>),
               tenure_from_days |-> Num(3650), tenure_to_days |-> Num(4000)])
FD80 == FDRaw([bank_name |-> Str(<<"HDFC">>), roi_in_percentage_max_tenure |-> Str(<<"7.5">>),
               roi_in_percentage_senior_citizen_max_tenure |-> Str(<<"7.0">>),
               tenure_from_days |-> Num(3650), tenure_to_days |-> Num(4000)])
FD70 == FDRaw([bank_name |-> Str(<<"HDFC">>), roi_in_percentage_max_tenure |-> Str(<<"7.5">>),
               tenure_from_days |-> Num(3650), tenure_to_days |-> Num(4000)])
FD70Axis == FDRaw([bank_name |-> Str(<<"Axis">>),
                   roi_in_percentage_max_tenure |-> Str(<<"7.5">>),
                   tenure_from_days |-> Num(3650), tenure_to_days |-> Num(4000)])
FD60 == FDRaw([bank_name |-> Str(<<"HDFC">>), roi_in_percentage_max_tenure |-> Str(<<"7.5">>)])
FDSbi == FDRaw([bank_name |-> Str(<<"SBI">>), roi_in_percentage_max_tenure |-> Str(<<"7.5">>),
                roi_in_percentage_senior_citizen_max_tenure |-> Str(<<"8.1">>),
                tenure_from_days |-> Num(3650), tenure_to_days |-> Num(18250)])
\* records process_product or calculate_score raises on, and a JSON string
FDBadTenure == FDRaw([bank_name |-> Str(<<"HDFC">>), tenure_from_days |-> Str(<<"abc">>)])
FDNullBank == FDRaw([bank_name |-> None, roi_in_percentage_max_tenure |-> Str(<<"7.5">>)])
FDNotAMap == [map |-> FALSE, f |-> [key \in FDKeys |-> Absent]]

CCExample == CCRaw([name |-> Str(<<"Example", "Card">>), bank |-> Str(<<"HDFC">>),
                    annual_fee |-> Num(0), description |-> Str(ExampleCardText)])
CCTravel == CCRaw([name |-> Str(<<"Travel", "Premium", "Card">>), bank |-> Str(<<"Axis">>),
                   features |-> List(PlainFeatures), annual_fee |-> Num(30000)])
CCPlain == CCRaw([name |-> Str(<<"Plain", "Card">>), description |-> Str(FeeCardText)])
CCNullName == CCRaw([name |-> None, bank |-> Str(<<"HDFC">>)])

MFEquity == MFRaw([name |-> Str(<<"Equity", "Growth", "Fund">>),
                   risk_level |-> Str(<<"Very", "High", "Risk">>), rating |-> Num(40),
                   returns_5y |-> Str(<<"12.5", "%">>), expense_ratio |-> Num(5)])
MFLiquid == MFRaw([name |-> Str(<<"Liquid", "Debt", "Fund">>),
                   risk_level |-> Str(<<"Low", "Risk">>), rating |-> Num(30),
                   returns_3y |-> Str(<<"30">>), aum |-> Num(120000)])
MFPlain == MFRaw([name |-> Str(<<"Plain", "Fund">>), returns_1y |-> Str(<<"15">>)])
MFLoss == MFRaw([name |-> Str(<<"Plain", "Fund">>), returns_5y |-> Str(<<"-30", "%">>)])
MFNotAMap == [map |-> FALSE, f |-> [key \in MFKeys |-> Absent]]

\* the scored products the ranking probe draws its batches from
RankCatalogue(category) ==
    CASE category = CREDIT_CARDS ->
            {ScoredOf(category, raw, NoPrefs) : raw \in {CCExample, CCTravel, CCPlain}}
      [] category = FIXED_DEPOSITS ->
            {ScoredOf(category, raw, NoPrefs) : raw \in {FD90, FD70, FDSbi}}
      [] OTHER ->
            {ScoredOf(category, raw, NoPrefs) : raw \in {MFEquity, MFLiquid, MFPlain}}

\* the longest batch of the ranking probe
MaxBatch == 3

\* the batches of the ranking probe
Batches(category) ==
    UNION {[1..n -> RankCatalogue(category)] : n \in 0..MaxBatch}

\* the values the probes give each documented preference: the empty values
\* None, '' and [], and values of the documented type
PrefValues(key) ==
    CASE key = "risk_tolerance" -> {None, Str(<<>>), List(<<>>), Str(<<"low", "risk">>)}
      [] key = "investment_goal" ->
            {None, Str(<<>>), List(<<>>), Str(<<"retirement">>), Str(<<"Wealth", "Creation">>)}
      [] key = "investment_horizon" ->
            {None, Str(<<>>), List(<<>>), Str(<<"long", "term">>), Str(<<"short", "term">>)}
      [] key = "investment_type" -> {None, Str(<<>>), List(<<>>), Str(<<"SIP">>)}
      [] key = "spending_categories" ->
            {None, Str(<<>>), List(<<>>), List(<< <<"Travel">>, <<"fuel">> >>)}
      [] key = "income_range" -> {None, Str(<<>>), List(<<>>), Str(<<"premium">>)}
      [] key = "investment_tenure" ->
            {None, Str(<<>>), List(<<>>), Str(<<"medium_term">>), Str(<<"long_term">>)}
      [] key = "investment_amount" -> {None, Str(<<>>), List(<<>>), Num(500000), Num(2000000)}
      [] key = "is_senior_citizen" -> {None, Str(<<>>), List(<<>>), Bool(TRUE)}
      [] key = "max_annual_fee" -> {None, Num(5000)}
      [] OTHER -> {}

\* the signals the specification documents
DocumentedKeys == {"risk_tolerance", "investment_goal", "investment_horizon",
                   "investment_type", "spending_categories", "income_range",
                   "investment_tenure", "investment_amount", "is_senior_citizen"}

\* the preference keys a category's ranker reads
RankerKeys(category) ==
    CASE category = CREDIT_CARDS -> {"max_annual_fee", "income_range", "spending_categories"}
      [] category = FIXED_DEPOSITS ->
            {"investment_tenure", "investment_amount", "is_senior_citizen"}
      [] OTHER -> {"investment_goal", "investment_horizon", "investment_type"}

\* the maps that set one of the given keys to one of its values
OneKeyPrefs(keys) ==
    {[NoPrefs EXCEPT ![kv[1]] = kv[2]] :
        kv \in UNION {{<<k, w>> : w \in PrefValues(k)} : k \in keys}}

\* the preference maps of the ranking probe: {} and every map that sets one
\* key the ranker reads
RankPrefs(category) == {NoPrefs} \cup OneKeyPrefs(RankerKeys(category))

RankQueries == {<<>>, <<"Senior", "equity">>, <<"travel", "hdfc">>}

\* rank_products(products, user_query, user_preferences)
RankCall(category, products, query, user_preferences) ==
    LET exc == IF products = <<>> THEN "none"
               ELSE RankExc(category, products, query, user_preferences)
    IN  [op |-> "rank", category |-> category, products |-> products,
         query |-> query, prefs |-> user_preferences, exc |-> exc,
         out |-> IF exc = "none"
                 THEN RankProducts(category, products, query, user_preferences)
                 ELSE <<>>]

-----------------------------------------------------------------------------
(* Data loaders.  The data directory holds one file per category: whether it *)
(* exists, and the JSON values it lists (a raw record with map = FALSE is a  *)
(* JSON string).  The credit cards are those of the one bank directory,      *)
(* "hdfc", found when the manager is constructed.                            *)

File(items) == [exists |-> TRUE, items |-> items]
MissingFile == [exists |-> FALSE, items |-> <<>>]

\* CreditCardDataLoader._load_bank_data: a card without a bank gets the
\* directory's name, title-cased
WithBank(card) ==
    IF Truthy(card.f["bank"]) THEN card
    ELSE [card EXCEPT !.f["bank"] = Str(<<"Hdfc">>)]

\* the exception CreditCardDataLoader.load_data raises, "none" if it returns
CCLoadExc(file, source) ==
    IF ~Truthy(source) THEN "none"
    ELSE IF source.k # "str" THEN "AttributeError"
    ELSE IF ~file.exists \/ Lower(source.t) # <<"hdfc">> THEN "ValueError"
    ELSE IF \E i \in 1..Len(file.items) : ~file.items[i].map THEN "TypeError"
    ELSE "none"

\* CreditCardDataLoader.load_data: without a source, a bank whose file cannot
\* be loaded is skipped with a warning
CCLoadData(file, source) ==
    IF ~file.exists \/ (\E i \in 1..Len(file.items) : ~file.items[i].map) THEN <<>>
    ELSE [i \in 1..Len(file.items) |-> WithBank(file.items[i])]

\* source_lower in the lowered text of a field (key, default '')
FieldHas(raw, key, source) ==
    Contains(Lower(Get(raw.f, key, Str(<<>>)).t), Lower(source.t))

\* the exception a loader's source filter raises: record.get(key, '').lower()
\* on a JSON string, or on a field that is not a string
FilterExc(items, keys) ==
    LET bad(raw) == ~raw.map \/ \E key \in keys : Get(raw.f, key, Str(<<>>)).k # "str"
    IN  IF FirstWhere(items, bad) = 0 THEN "none" ELSE "AttributeError"

\* the exception FixedDepositDataLoader.load_data raises, "none" if it returns
FDLoadExc(file, source) ==
    IF ~file.exists THEN "FileNotFoundError"
    ELSE IF ~Truthy(source) THEN "none"
    ELSE IF source.k # "str" THEN "AttributeError"
    ELSE FilterExc(file.items, {"bank_name", "about"})

\* FixedDepositDataLoader.load_data (the records carry no '_source' wrapper)
FDLoadData(file, source) ==
    IF ~Truthy(source) THEN file.items
    ELSE SelectSeq(file.items,
                   LAMBDA fd : FieldHas(fd, "bank_name", source) \/ FieldHas(fd, "about", source))

\* the exception MutualFundDataLoader.load_data raises, "none" if it returns
MFLoadExc(file, source) ==
    IF ~file.exists THEN "FileNotFoundError"
    ELSE IF ~Truthy(source) THEN "none"
    ELSE IF source.k # "str" THEN "AttributeError"
    ELSE FilterExc(file.items, {"category", "amc", "name"})

\* MutualFundDataLoader.load_data
MFLoadData(file, source) ==
    IF ~Truthy(source) THEN file.items
    ELSE SelectSeq(file.items,
                   LAMBDA fund : \/ FieldHas(fund, "category", source)
                                 \/ FieldHas(fund, "amc", source)
                                 \/ FieldHas(fund, "name", source))

\* loader.load_data raising
LoadExc(category, world, source) ==
    CASE category = CREDIT_CARDS -> CCLoadExc(world[category], source)
      [] category = FIXED_DEPOSITS -> FDLoadExc(world[category], source)
      [] OTHER -> MFLoadExc(world[category], source)

\* loader.load_data
LoadData(category, world, source) ==
    CASE category = CREDIT_CARDS -> CCLoadData(world[category], source)
      [] category = FIXED_DEPOSITS -> FDLoadData(world[category], source)
      [] OTHER -> MFLoadData(world[category], source)

-----------------------------------------------------------------------------
(* FinancialProductManager *)

\* f'{category.value}_source'
SourceKey(category) ==
    CASE category = CREDIT_CARDS -> "credit_cards_source"
      [] category = FIXED_DEPOSITS -> "fixed_deposits_source"
      [] OTHER -> "mutual_funds_source"

\* the handler of the per-record try of _process_category formats
\* raw_product.get('name', 'Unknown'): the exception it raises itself
RecordHandlerExc(raw) == IF raw.map THEN "none" ELSE "AttributeError"

\* the exception the per-record loop of _process_category ends with, given
\* the ScoreRecord of every raw record: a record that fails and whose handler
\* raises ends the loop
RecordLoopExc(records) ==
    LET fatal(r) == r.sexc # "none" /\ RecordHandlerExc(r.raw) # "none"
        first == FirstWhere(records, fatal)
    IN  IF first = 0 THEN "none" ELSE RecordHandlerExc(records[first].raw)

\* scored_products when the per-record loop of _process_category completes
ScoredProducts(records) ==
    LET scored(r) == ScoredProduct(r.product, r.score, BaseReasoning(r.score))
    IN  MapSeq(SelectSeq(records, LAMBDA r : r.sexc = "none"), scored)

\* _process_category raising exc / returning products
Raised(exc) == [exc |-> exc, products |-> <<>>]
Returned(products) == [exc |-> "none", products |-> products]

\* FinancialProductManager._process_category: the exception it raises, or the
\* ranked products it returns
CategoryOutcome(category, query, user_preferences, world) ==
    LET source_filter == Get(user_preferences, SourceKey(category), None)
        score(raw) == ScoreRecord(category, raw, user_preferences)
        rank(scored_products) ==
            With(RankExc(category, scored_products, query, user_preferences),
                 LAMBDA exc :
                     IF exc # "none" THEN Raised(exc)
                     ELSE Returned(RankProducts(category, scored_products, query,
                                                user_preferences)))
        process(raw_data) ==
            With(MapSeq(raw_data, score),
                 LAMBDA records :
                     IF RecordLoopExc(records) # "none"
                     THEN Raised(RecordLoopExc(records))
                     ELSE With(ScoredProducts(records), rank))
        load(exc) ==
            IF exc # "none" THEN Raised(exc)
            ELSE With(LoadData(category, world, source_filter), process)
    IN  IF category \notin Implemented THEN Raised("KeyError")
        ELSE With(LoadExc(category, world, source_filter), load)

\* the exception _process_category raises, "none" if it returns
ProcessCategoryExc(category, query, user_preferences, world) ==
    CategoryOutcome(category, query, user_preferences, world).exc

\* the list _process_category returns
ProcessCategory(category, query, user_preferences, world) ==
    CategoryOutcome(category, query, user_preferences, world).products

\* a handler that catches the loaders' errors only
CaughtLoaderErrors(exc) == exc \in {"ValueError", "FileNotFoundError", "RuntimeError"}

\* `except Exception` of the category loop: the exception classes it catches
Caught(exc) ==
    exc \in {"AttributeError", "TypeError", "ValueError", "KeyError",
             "FileNotFoundError", "RuntimeError"}

\* an extend that puts the category's products in front
ExtendFront(products, category_products) == category_products \o products

\* all_products.extend(category_products)
Extend(products, category_products) == products \o category_products

\* FinancialProductManager._rank_across_categories
RankAcrossCategories(products, query, user_preferences) == SortedDesc(products)

\* a slice that keeps the whole list
SliceToAll(s, n) == s

\* s[:n]
SliceTo(s, n) ==
    IF n >= 0 THEN Take(s, n) ELSE Take(s, PyMax(Len(s) + n, 0))

\* FinancialProductManager._generate_recommendation_reasoning
RecommendationReasoning(query, products, total_found) ==
    IF products = <<>>
    THEN [text |-> "No products found matching ... Try different search terms.",
          query |-> query, total_found |-> 0, shown |-> 0, categories |-> {},
          top_score |-> ""]
    ELSE [text |-> "Found ... products matching ... Showing top ... recommendations",
          query |-> query, total_found |-> total_found, shown |-> Len(products),
          categories |-> {products[i].product.category : i \in 1..Len(products)},
          top_score |-> FmtScore(products[1].score)]

\* the ProductRecommendation recommend_products returns
Recommendation(products, query, user_preferences, max_results) ==
    LET ranked_products == RankAcrossCategories(products, query, user_preferences)
        final_products == SliceTo(ranked_products, max_results)
    IN  [products |-> final_products,
         total_found |-> Len(products),
         query_processed |-> query,
         recommendations_reasoning |->
             RecommendationReasoning(query, final_products, Len(products))]

\* data directories
WorldGood == [credit_cards |-> File(<<CCExample, CCPlain>>),
              fixed_deposits |-> File(<<FD60, FD70, FD80, FD85, FD90>>),
              mutual_funds |-> File(<<MFPlain, MFEquity>>)]
WorldBad == [credit_cards |-> File(<<CCNullName, CCTravel>>),
             fixed_deposits |-> MissingFile,
             mutual_funds |-> File(<<MFNotAMap, MFLiquid>>)]
WorldMixed == [credit_cards |-> MissingFile,
               fixed_deposits |-> File(<<FD70, FDBadTenure, FD70Axis, FDNullBank, FDSbi>>),
               mutual_funds |-> File(<<MFLoss, MFLiquid>>)]
Worlds == {WorldGood, WorldBad, WorldMixed}

\* the category lists requested; None gives list(ProductCategory)
CategoryLists == {<<>>, <<FIXED_DEPOSITS>>, <<CREDIT_CARDS, FIXED_DEPOSITS, MUTUAL_FUNDS>>,
                  ProductCategory, <<INSURANCE, MUTUAL_FUNDS, CREDIT_CARDS>>,
                  <<MUTUAL_FUNDS, FIXED_DEPOSITS>>,
                  <<FIXED_DEPOSITS, MUTUAL_FUNDS, FIXED_DEPOSITS>>}

RequestQueries == {<<>>, <<"Senior", "equity">>}

RequestPrefs == {NoPrefs,
                 Prefs([investment_goal |-> Str(<<"retirement">>)]),
                 Prefs([fixed_deposits_source |-> Str(<<"SBI">>)]),
                 Prefs([credit_cards_source |-> Str(<<"nosuch">>)]),
                 Prefs([is_senior_citizen |-> Bool(TRUE)]),
                 Prefs([risk_tolerance |-> None])}

\* max_results ranges over -NegResults..MaxResults
NegResults == 2
MaxResults == 5

-----------------------------------------------------------------------------
(* Vector managers.  A vector is a tuple of integers; a vector id is the     *)
(* string hashed by generate_vector_id (two ids are equal when the strings  *)
(* are); created_at and updated_at of the metadata are left out.            *)

NoVectorManager == [kind |-> "none"]

\* CloudflareVectorizeManager(): posted lists the batches sent to the index
CloudflareVectorizeManager == [kind |-> "cloudflare", vectors |-> <<>>, posted |-> <<>>]

\* FallbackVectorManager(): vectors is the in-memory store
FallbackVectorManager == [kind |-> "fallback", vectors |-> <<>>, posted |-> <<>>]

\* FinancialProductManager._initialize_vector_manager: the constructor of the
\* remote manager raises ValueError without credentials
InitializeVectorManager(use_cloudflare, credentials) ==
    IF use_cloudflare /\ credentials THEN CloudflareVectorizeManager
    ELSE FallbackVectorManager

\* VectorMetadata(product_id, product_type, product_name, bank_name)
VectorMetadata(product_id, product_type, product_name, bank_name) ==
    [product_id |-> product_id, product_type |-> product_type,
     product_name |-> product_name, bank_name |-> bank_name]

\* the exception self.vector_manager.generate_vector_id raises: only
\* CloudflareVectorizeManager defines the method
GenerateVectorIdExc(manager) ==
    IF manager.kind = "cloudflare" THEN "none" ELSE "AttributeError"

\* CloudflareVectorizeManager.generate_vector_id: the string it hashes
GenerateVectorId(product_data) ==
    <<product_data.type, "_">> \o product_data.bank \o <<"_">> \o product_data.name

\* vector_data: {"id": vector_id, "values": vector, "metadata": asdict(metadata)}
\* for each triple
VectorData(vectors) ==
    [i \in 1..Len(vectors) |-> [id |-> vectors[i].id, values |-> vectors[i].vector,
                                metadata |-> vectors[i].metadata]]

\* the code's batch_size of 1000, scaled down
BatchSize == 2

\* vector_data[i:i + batch_size] for i in range(0, len(vector_data), batch_size)
BatchesOf(vector_data) ==
    [b \in 1..((Len(vector_data) + BatchSize - 1) \div BatchSize) |->
        SubSeq(vector_data, (b - 1) * BatchSize + 1, PyMin(b * BatchSize, Len(vector_data)))]

\* the answers of the index to the posts of one call: a status code, or 0
\* when requests.post raises
Answers == {0, 200, 201, 500}
\* a status check that takes 200 alone
AcceptedOnlyOk(answer) == answer = 200

\* response.status_code in [200, 201]
Accepted(answer) == answer \in {200, 201}

\* the number of batches CloudflareVectorizeManager.upsert_vectors posts when
\* the index gives the k-th post answers[k]: all of them, or those up to the
\* first that is not accepted
PostedCount(batches, answers) ==
    LET failing == {b \in 1..Len(batches) : ~Accepted(answers[b])}
    IN  IF failing = {} THEN Len(batches) ELSE SetMin(failing)

\* CloudflareVectorizeManager.upsert_vectors: what it returns and the manager
\* after it; posted gains every batch handed to requests.post
CloudflareUpsert(manager, vectors, answers) ==
    LET batches == BatchesOf(VectorData(vectors))
        count == PostedCount(batches, answers)
    IN  [returned |-> \A b \in 1..Len(batches) : Accepted(answers[b]),
         manager |-> [manager EXCEPT !.posted = @ \o SubSeq(batches, 1, count)]]

\* self.vectors[vector_id] = {'vector': vector, 'metadata': asdict(metadata)}:
\* the store is a dict, kept as its items in insertion order; assigning to a
\* key it has replaces the value in place
StoreOne(store, v) ==
    LET entry == [id |-> v.id, vector |-> v.vector, metadata |-> v.metadata]
        at == {i \in 1..Len(store) : store[i].id = v.id}
    IN  IF at = {} THEN Append(store, entry)
        ELSE [i \in 1..Len(store) |-> IF i \in at THEN entry ELSE store[i]]

RECURSIVE StoreAll(_, _)
\* for vector_id, vector, metadata in vectors: self.vectors[vector_id] = {...}
StoreAll(store, vectors) ==
    IF vectors = <<>> THEN store
    ELSE StoreAll(StoreOne(store, vectors[1]), Tail(vectors))

\* FallbackVectorManager.upsert_vectors
FallbackUpsert(manager, vectors) ==
    [returned |-> TRUE, manager |-> [manager EXCEPT !.vectors = StoreAll(@, vectors)]]

\* self.vector_manager.upsert_vectors(vectors)
UpsertVectors(manager, vectors, answers) ==
    IF manager.kind = "cloudflare" THEN CloudflareUpsert(manager, vectors, answers)
    ELSE FallbackUpsert(manager, vectors)

-----------------------------------------------------------------------------
(* State *)

NoRequest == [query |-> <<>>]
NoRecommendation == [total_found |-> -1]

Init ==
    /\ probe = [op |-> "idle"]
    /\ pc = "idle"
    /\ req = NoRequest
    /\ idx = 0
    /\ all_products = <<>>
    /\ catlog = <<>>
    /\ rec = NoRecommendation
    /\ vm = NoVectorManager
    /\ vs = [op |-> "idle"]
    /\ threads = <<>>

ScoreCC ==
    /\ pc = "idle" /\ probe.op = "idle"
    /\ \E raw \in CCProbeRaws, prefs \in {NoPrefs} :
          probe' = ScoreRecord(CREDIT_CARDS, raw, prefs)
    /\ UNCHANGED <<pc, req, idx, all_products, catlog, rec, vm, vs, threads>>

ScoreFD ==
    /\ pc = "idle" /\ probe.op = "idle"
    /\ \E raw \in FDProbeRaws, prefs \in {NoPrefs} :
          probe' = ScoreRecord(FIXED_DEPOSITS, raw, prefs)
    /\ UNCHANGED <<pc, req, idx, all_products, catlog, rec, vm, vs, threads>>

ScoreMF ==
    /\ pc = "idle" /\ probe.op = "idle"
    /\ \E raw \in MFProbeRaws, prefs \in ScorePrefs :
          probe' = ScoreRecord(MUTUAL_FUNDS, raw, prefs)
    /\ UNCHANGED <<pc, req, idx, all_products, catlog, rec, vm, vs, threads>>

\* an optional argument: None, or the value given
NotGiven == [given |-> FALSE]
Given(v) == [given |-> TRUE, v |-> v]

\* a default taken whenever the list is empty, not only when it is None
DefaultCategoriesIfEmpty(product_categories) ==
    IF product_categories.given /\ product_categories.v # <<>>
    THEN product_categories.v
    ELSE ProductCategory

\* if product_categories is None: product_categories = list(ProductCategory)
DefaultCategories(product_categories) ==
    IF product_categories.given THEN product_categories.v ELSE ProductCategory

\* if user_preferences is None: user_preferences = {}
DefaultPreferences(user_preferences) ==
    IF user_preferences.given THEN user_preferences.v ELSE NoPrefs

\* recommend_products is called: lines 107-113
Call ==
    /\ pc = "idle" /\ probe.op = "idle"
    /\ \E user_query \in RequestQueries,
          product_categories \in {NotGiven} \cup {Given(l) : l \in CategoryLists},
          user_preferences \in {NotGiven} \cup {Given(m) : m \in RequestPrefs},
          max_results \in (-NegResults)..MaxResults,
          world \in Worlds :
          req' = [query |-> user_query,
                  product_categories |-> product_categories,
                  user_preferences |-> user_preferences,
                  categories |-> DefaultCategories(product_categories),
                  prefs |-> DefaultPreferences(user_preferences),
                  max_results |-> max_results, world |-> world]
    /\ pc' = "loop"
    /\ idx' = 1
    /\ all_products' = <<>>
    /\ catlog' = <<>>
    /\ UNCHANGED <<probe, rec, vm, vs, threads>>

\* one iteration of the category loop: _process_category returns and its
\* products are appended, or it raises and the handler prints and continues
\* (an exception the handler does not catch leaves recommend_products)
Category ==
    /\ pc = "loop" /\ idx <= Len(req.categories)
    /\ \E outcome \in {CategoryOutcome(req.categories[idx], req.query, req.prefs,
                                       req.world)} :
          /\ all_products' = IF outcome.exc = "none"
                             THEN Extend(all_products, outcome.products)
                             ELSE all_products
          /\ catlog' = Append(catlog, outcome.exc)
          /\ pc' = IF outcome.exc = "none" \/ Caught(outcome.exc) THEN "loop" ELSE "raised"
    /\ idx' = idx + 1
    /\ UNCHANGED <<probe, req, rec, vm, vs, threads>>

\* after the loop: rank across categories, limit, build the recommendation
Finish ==
    /\ pc = "loop" /\ idx > Len(req.categories)
    /\ rec' = Recommendation(all_products, req.query, req.prefs, req.max_results)
    /\ pc' = "done"
    /\ UNCHANGED <<probe, req, idx, all_products, catlog, vm, vs, threads>>

Next == Call \/ Category \/ Finish

\* recommend_products, one call
Spec == Init /\ [][Next]_vars

NextScore == ScoreCC \/ ScoreFD \/ ScoreMF

\* the specification of the scoring probe
SpecScore == Init /\ [][NextScore]_vars

Scored == probe.op = "score" /\ probe.sexc = "none"

\* C1: every score calculate_score returns lies in [0, 100]
C1_ScoreInRange == Scored => (0 <= probe.score /\ probe.score <= MaxScore)

\* C10: process_product returns a product for every raw record that is a field map
C10_ProcessTotal ==
    (probe.op = "score" /\ probe.raw.map) => probe.pexc = "none"

\* every key of the map is absent or holds an empty value: None, '' or []
EmptyPrefs(prefs) ==
    \A key \in PrefKeys : prefs[key] \in {Absent, None, Str(<<>>), List(<<>>)}

\* C9: with every preference key absent or empty, calculate_score does not
\* raise and returns the score it returns for the empty preference map
C9_EmptyIsNeutral ==
    (probe.op = "score" /\ probe.pexc = "none" /\ EmptyPrefs(probe.prefs)
        /\ ScoreExc(probe.category, probe.product, NoPrefs) = "none") =>
        /\ probe.sexc = "none"
        /\ probe.score = CalculateScore(probe.category, probe.product, NoPrefs)

RankCC ==
    /\ pc = "idle" /\ probe.op = "idle"
    /\ \E products \in Batches(CREDIT_CARDS), query \in RankQueries,
          prefs \in RankPrefs(CREDIT_CARDS) :
          probe' = RankCall(CREDIT_CARDS, products, query, prefs)
    /\ UNCHANGED <<pc, req, idx, all_products, catlog, rec, vm, vs, threads>>

RankFD ==
    /\ pc = "idle" /\ probe.op = "idle"
    /\ \E products \in Batches(FIXED_DEPOSITS), query \in RankQueries,
          prefs \in RankPrefs(FIXED_DEPOSITS) :
          probe' = RankCall(FIXED_DEPOSITS, products, query, prefs)
    /\ UNCHANGED <<pc, req, idx, all_products, catlog, rec, vm, vs, threads>>

RankMF ==
    /\ pc = "idle" /\ probe.op = "idle"
    /\ \E products \in Batches(MUTUAL_FUNDS), query \in RankQueries,
          prefs \in RankPrefs(MUTUAL_FUNDS) :
          probe' = RankCall(MUTUAL_FUNDS, products, query, prefs)
    /\ UNCHANGED <<pc, req, idx, all_products, catlog, rec, vm, vs, threads>>

NextRank == RankCC \/ RankFD \/ RankMF

\* the specification of the ranking probe
SpecRank == Init /\ [][NextRank]_vars

Ranked == probe.op = "rank" /\ probe.exc = "none"

\* the number of positions of s holding e
Count(s, e) == Cardinality({i \in 1..Len(s) : s[i] = e})

\* every key of the map is absent or set to a non-empty value
NonEmptyPrefs(prefs) == \A key \in PrefKeys : prefs[key].k = "absent" \/ Truthy(prefs[key])

\* the products of a list of scored products
ProductsOf(s) == [i \in 1..Len(s) |-> s[i].product]

\* C2: rank_products returns normally, and its result holds exactly the input
\* products, each once; an empty input gives an empty list
C2_RankTotalPermutation ==
    (probe.op = "rank" /\ NonEmptyPrefs(probe.prefs)) =>
        /\ probe.exc = "none"
        /\ Len(probe.out) = Len(probe.products)
        /\ \A i \in 1..Len(probe.products) :
              Count(ProductsOf(probe.out), probe.products[i].product)
                  = Count(ProductsOf(probe.products), probe.products[i].product)

\* C8: the list rank_products returns is non-increasing in score
C8_RankedNonIncreasing ==
    Ranked => \A i \in 1..Len(probe.out), j \in 1..Len(probe.out) :
                  i < j => probe.out[i].score >= probe.out[j].score

\* a batch given in strictly ascending order of enhanced score was ranked
C8_Witness ==
    /\ Ranked
    /\ Len(probe.out) >= 2
    /\ \A i \in 1..(Len(probe.products) - 1) :
          EnhancedScore(probe.category, probe.products[i], probe.query, probe.prefs)
            < EnhancedScore(probe.category, probe.products[i + 1], probe.query, probe.prefs)

-----------------------------------------------------------------------------
(* recommend_products *)

Done == pc = "done"

\* the exceptions the categories of the request ended with
Raises == {catlog[i] : i \in 1..Len(catlog)} \ {"none"}

\* C3: recommend_products never propagates an exception; it returns a
\* recommendation, whose reasoning says so when the products list is empty
C3_NeverPropagates ==
    /\ pc # "raised"
    /\ Done => /\ rec.total_found >= 0
               /\ rec.query_processed = req.query
               /\ rec.products = <<>> =>
                     rec.recommendations_reasoning.text
                       = "No products found matching ... Try different search terms."

\* a recommendation was returned although a loader, a processor or ranker, and
\* the category lookup each raised
C3_Witness ==
    Done /\ {"FileNotFoundError", "AttributeError", "KeyError"} \subseteq Raises

\* the raw records category i of the request loads
LoadedOf(i) ==
    LoadData(req.categories[i], req.world,
             Get(req.prefs, SourceKey(req.categories[i]), None))

\* the scored products of the raw records for which process_product and
\* calculate_score both return
ScoringOf(category, raw_data, user_preferences) ==
    LET scores(raw) == ScoreRecord(category, raw, user_preferences).sexc = "none"
        scored(raw) == ScoredOf(category, raw, user_preferences)
    IN  MapSeq(SelectSeq(raw_data, scores), scored)

\* C4: when the records of a category load and the ranker accepts those that
\* score, the category returns the ranking of exactly the records that score:
\* a record for which process_product or calculate_score raises is the only
\* one omitted
C4_OnlyFailingRecordOmitted ==
    \A i \in 1..Len(catlog) :
        LET category == req.categories[i]
            scoring == ScoringOf(category, LoadedOf(i), req.prefs)
        IN  (/\ category \in Implemented
             /\ LoadExc(category, req.world, Get(req.prefs, SourceKey(category), None)) = "none"
             /\ RankExc(category, scoring, req.query, req.prefs) = "none")
            => /\ catlog[i] = "none"
               /\ ProcessCategory(category, req.query, req.prefs, req.world)
                    = RankProducts(category, scoring, req.query, req.prefs)

RECURSIVE Candidates(_)
\* the concatenation, in request order, of the ranked lists of the first n
\* categories of the request whose processing does not raise
Candidates(n) ==
    IF n = 0 THEN <<>>
    ELSE LET category == req.categories[n]
         IN  Candidates(n - 1) \o
             (IF ProcessCategoryExc(category, req.query, req.prefs, req.world) = "none"
              THEN ProcessCategory(category, req.query, req.prefs, req.world)
              ELSE <<>>)

\* C5: the candidates are the concatenation, in request order, of the ranked
\* lists of the categories whose processing did not raise; a category that
\* raises contributes nothing and changes no other category's candidates
C5_CandidatesConcatenation ==
    /\ pc = "loop" => all_products = Candidates(idx - 1)
    /\ Done => /\ all_products = Candidates(Len(req.categories))
               /\ rec.total_found = Len(all_products)

\* a request in which a category raised before two others that each
\* contributed candidates
C5_Witness ==
    /\ Done
    /\ \E i, j, k \in 1..Len(catlog) :
          /\ i < j /\ j < k
          /\ catlog[i] # "none" /\ catlog[j] = "none" /\ catlog[k] = "none"
          /\ ProcessCategory(req.categories[j], req.query, req.prefs, req.world) # <<>>
          /\ ProcessCategory(req.categories[k], req.query, req.prefs, req.world) # <<>>
          /\ req.categories[j] # req.categories[k]

\* C6 as the specification states it: total_found counts the candidates, is at
\* least len(products), and equals it iff total_found <= max_results
C6_TotalFoundIffWithinLimit ==
    Done => /\ rec.total_found = Len(all_products)
            /\ rec.total_found >= Len(rec.products)
            /\ (rec.total_found = Len(rec.products)) <=> (rec.total_found <= req.max_results)

\* C6, amended: total_found counts the candidates, is at least len(products),
\* and equals it iff total_found <= max_results or there is no candidate
C6_TotalFound ==
    Done => /\ rec.total_found = Len(all_products)
            /\ rec.total_found >= Len(rec.products)
            /\ (rec.total_found = Len(rec.products))
                 <=> (rec.total_found <= req.max_results \/ rec.total_found = 0)

\* a recommendation cut to a positive max_results smaller than total_found
C6_Witness ==
    /\ Done
    /\ 0 < req.max_results /\ req.max_results < rec.total_found
    /\ Len(rec.products) = req.max_results

\* the place candidate i of s takes in the stable descending sort of s
PlaceOf(s, i) ==
    1 + Cardinality({j \in 1..Len(s) :
                        \/ s[j].score > s[i].score
                        \/ (s[j].score = s[i].score /\ j < i)})

\* the stable descending-by-score sort of s
StableDescending(s) ==
    [k \in 1..Len(s) |-> s[CHOOSE i \in 1..Len(s) : PlaceOf(s, i) = k]]

\* the scores of a list of scored products
ScoresOf(s) == [i \in 1..Len(s) |-> s[i].score]

\* C7: products are the first min(max_results, total_found) elements of the
\* stable descending sort of the candidates; five deposits scoring 90, 85,
\* 80, 70, 60 with max_results = 2 give the 90 and the 85, total_found = 5
C7_TopOfStableSort ==
    Done =>
        /\ rec.products = Take(StableDescending(all_products),
                               PyMin(req.max_results, rec.total_found))
        /\ (/\ req.world = WorldGood /\ req.categories = <<FIXED_DEPOSITS>>
            /\ req.prefs = NoPrefs /\ req.query = <<>> /\ req.max_results = 2)
           => /\ ScoresOf(all_products) = <<Pts(90), Pts(85), Pts(80), Pts(70), Pts(60)>>
              /\ ScoresOf(rec.products) = <<Pts(90), Pts(85)>>
              /\ rec.total_found = 5

\* the fixed no-results message and the sentence reporting what was found
NoResultsText == "No products found matching ... Try different search terms."
FoundText == "Found ... products matching ... Showing top ... recommendations"

\* C11: the reasoning is the no-results message quoting the query exactly when
\* total_found = 0, and otherwise reports total_found, the number shown, the
\* categories represented and the top score; recommend_products("", [], {}, 5)
\* returns no product, total_found = 0 and the no-results message
C11_ReasoningMatchesTotalFound ==
    Done =>
        /\ (rec.recommendations_reasoning.text = NoResultsText) <=> (rec.total_found = 0)
        /\ rec.recommendations_reasoning.text = NoResultsText =>
              rec.recommendations_reasoning.query = req.query
        /\ rec.total_found > 0 =>
              /\ rec.recommendations_reasoning.text = FoundText
              /\ rec.recommendations_reasoning.query = req.query
              /\ rec.recommendations_reasoning.total_found = rec.total_found
              /\ rec.recommendations_reasoning.shown = Len(rec.products)
              /\ rec.recommendations_reasoning.categories
                   = {rec.products[i].product.category : i \in 1..Len(rec.products)}
              /\ rec.recommendations_reasoning.top_score = FmtScore(rec.products[1].score)
        /\ (/\ req.query = <<>> /\ req.categories = <<>> /\ req.prefs = NoPrefs
            /\ req.max_results = 5)
           => /\ rec.products = <<>>
              /\ rec.total_found = 0
              /\ rec.recommendations_reasoning.text = NoResultsText

RECURSIVE AllProductsOf(_, _, _, _)
\* all_products after the category loop of recommend_products over the list
AllProductsOf(categories, query, user_preferences, world) ==
    IF categories = <<>> THEN <<>>
    ELSE LET before == AllProductsOf(SubSeq(categories, 1, Len(categories) - 1), query,
                                     user_preferences, world)
             outcome == CategoryOutcome(categories[Len(categories)], query,
                                        user_preferences, world)
         IN  IF outcome.exc = "none" THEN Extend(before, outcome.products) ELSE before

\* recommend_products(user_query, product_categories, user_preferences,
\* max_results) as a function of its arguments and the data directory
RecommendProducts(user_query, product_categories, user_preferences, max_results, world) ==
    Recommendation(AllProductsOf(DefaultCategories(product_categories), user_query,
                                 DefaultPreferences(user_preferences), world),
                   user_query, DefaultPreferences(user_preferences), max_results)

\* C12: a call with categories and preferences None returns what the call with
\* every ProductCategory member in enumeration order and {} returns, which is
\* what the three implemented categories alone give; an explicitly empty
\* category list stays empty
C12_DefaultsAreAllCategories ==
    Done =>
        /\ (~req.product_categories.given /\ ~req.user_preferences.given) =>
              /\ rec = RecommendProducts(req.query,
                          Given(<<CREDIT_CARDS, FIXED_DEPOSITS, MUTUAL_FUNDS, INSURANCE, LOANS>>),
                          Given(NoPrefs), req.max_results, req.world)
              /\ rec = RecommendProducts(req.query,
                          Given(<<CREDIT_CARDS, FIXED_DEPOSITS, MUTUAL_FUNDS>>),
                          Given(NoPrefs), req.max_results, req.world)
        /\ req.product_categories = Given(<<>>) =>
              /\ catlog = <<>>
              /\ rec.products = <<>> /\ rec.total_found = 0

\* a call with both arguments None that found products in two categories
C12_Witness ==
    /\ Done
    /\ ~req.product_categories.given /\ ~req.user_preferences.given
    /\ Cardinality({rec.products[i].product.category : i \in 1..Len(rec.products)}) >= 2

\* the raw records of the data directory that give the product when processed
RawsOf(product) ==
    LET category == product.category
        raw_data == LoadData(category, req.world,
                             Get(req.prefs, SourceKey(category), None))
    IN  {raw_data[i] : i \in {j \in 1..Len(raw_data) :
                                 /\ ProcessExc(category, raw_data[j]) = "none"
                                 /\ ProcessProduct(category, raw_data[j]) = product}}

\* the score and reasoning the category's ranker gives the record when it is
\* processed, scored and ranked alone
AloneOf(category, raw) ==
    RankProducts(category, <<ScoredOf(category, raw, req.prefs)>>, req.query, req.prefs)[1]

\* C13: the score of every candidate is the score its raw record gets when it
\* is processed, scored and ranked alone with the same query and preferences,
\* whatever else is in its batch, wherever it stands in it, and however many
\* times the record is processed
C13_ScoreOfProductAlone ==
    \A i \in 1..Len(all_products) :
        /\ RawsOf(all_products[i].product) # {}
        /\ \A raw \in RawsOf(all_products[i].product) :
              all_products[i] = AloneOf(all_products[i].product.category, raw)

\* a request that processed a batch of at least three records twice
C13_Witness ==
    /\ Done
    /\ \E i, j, k \in 1..Len(all_products) :
          /\ i < j /\ j < k
          /\ all_products[i].product.category = all_products[j].product.category
          /\ all_products[i].product # all_products[j].product
          /\ all_products[k] = all_products[i]
          /\ \E l \in (j + 1)..Len(all_products) : all_products[l] = all_products[j]

\* whether the record holds the tenure bound: any value other than None and ''
\* is one, 0 days included
BoundPresent(raw, key) ==
    Get(raw.f, key, None).k \notin {"absent", "none"} /\ Get(raw.f, key, None) # Str(<<>>)

\* the four components of the fixed-deposit score, in thousandths of a point,
\* where a rate of 0 and a tenure bound of 0 days are present values
FDRatePoints(product) ==
    IF product.interest_rate_max # NoVal
    THEN PyMin(product.interest_rate_max.v * 8 * 100, Pts(50)) ELSE 0

FDSeniorPoints(product) ==
    IF product.senior_citizen_rate # NoVal /\ product.interest_rate_max # NoVal
    THEN IF product.senior_citizen_rate.v > product.interest_rate_max.v
         THEN Pts(20) ELSE Pts(10)
    ELSE 0

FDTenurePoints(raw) ==
    IF BoundPresent(raw, "tenure_from_days") /\ BoundPresent(raw, "tenure_to_days")
    THEN LET range == IntOf(Get(raw.f, "tenure_to_days", None)).v
                        - IntOf(Get(raw.f, "tenure_from_days", None)).v
         IN  IF range > 1000 THEN Pts(20) ELSE IF range > 365 THEN Pts(15) ELSE Pts(10)
    ELSE 0

FDBankPoints(product) ==
    IF ContainsAny(Lower(product.bank_name.t), FDReputableBanks) THEN Pts(10) ELSE Pts(5)

ScoredFD == Scored /\ probe.category = FIXED_DEPOSITS

\* C14: the score of a fixed deposit is min(100, rate + senior + tenure + bank),
\* the senior component given whenever both rates are present and the tenure
\* component whenever both bounds are present, a value of 0 included; the SBI
\* record with rates 7.5 and 8.1 and a tenure of 365 to 1825 days scores 100
C14_FDScoreFormula ==
    ScoredFD =>
        /\ probe.score = PyMin(FDRatePoints(probe.product) + FDSeniorPoints(probe.product)
                                 + FDTenurePoints(probe.raw) + FDBankPoints(probe.product),
                               MaxScore)
        /\ (probe.raw = FDSbi => probe.score = Pts(100))

\* the benefits component of the credit-card score, in thousandths of a point
CCBenefitPoints(product) ==
    Pts(PyMin((IF product.fuel_surcharge_waiver THEN 5 ELSE 0)
              + (IF product.lounge_access THEN 10 ELSE 0)
              + (IF Truthy(product.welcome_benefit) THEN 5 ELSE 0), 20))

\* the Example Card record was processed and scored
ScoredExample == Scored /\ probe.category = CREDIT_CARDS /\ probe.raw = CCExample

\* C15 as stated: the Example Card record yields cashback_rate = 5, a fuel
\* surcharge waiver and lounge access, a benefits component of 20 and a score
\* of at least 80
C15_ExampleCardAsStated ==
    ScoredExample =>
        /\ probe.product.cashback_rate = Some(50)
        /\ probe.product.fuel_surcharge_waiver
        /\ probe.product.lounge_access
        /\ CCBenefitPoints(probe.product) = Pts(20)
        /\ probe.score >= Pts(80)

\* C15: the Example Card record yields cashback_rate = 5, lounge access and no
\* fuel surcharge waiver (its text says neither 'fuel surcharge' nor 'fuel
\* waiver'), a benefits component of 15 (lounge + welcome), and the score
\* 25 + 25 + 15 + 6 + 10 = 81, which is at least 80
C15_ExampleCard ==
    ScoredExample =>
        /\ probe.product.cashback_rate = Some(50)
        /\ ~probe.product.fuel_surcharge_waiver
        /\ probe.product.lounge_access
        /\ CCBenefitPoints(probe.product) = Pts(15)
        /\ probe.score = Pts(81)
        /\ probe.score >= Pts(80)

C15_Witness == ScoredExample /\ Len(probe.product.features) = 3

\* the product of the scored record with another senior-citizen rate
WithSeniorRate(raw, rate) ==
    FDProcessProduct([raw EXCEPT !.f["roi_in_percentage_senior_citizen_max_tenure"] = rate])

\* the scored deposit has a maximum rate and a senior rate above it
SeniorAbove ==
    /\ ScoredFD
    /\ probe.product.interest_rate_max # NoVal
    /\ probe.product.senior_citizen_rate # NoVal
    /\ probe.product.senior_citizen_rate.v > probe.product.interest_rate_max.v

\* the products that differ from the scored one only in a senior rate that is
\* present and not above the maximum rate
SeniorNotAbove ==
    {other \in {WithSeniorRate(probe.raw, rate) : rate \in FDSeniorRateValues} :
        /\ other.senior_citizen_rate # NoVal
        /\ other.senior_citizen_rate.v <= probe.product.interest_rate_max.v}

\* C16: a fixed deposit with a maximum rate (0 included) and a senior rate
\* above it scores strictly more than the same deposit with a senior rate that
\* is not above the maximum rate
C16_SeniorPremiumStrict ==
    SeniorAbove =>
        \A other \in SeniorNotAbove :
            probe.score > FDCalculateScore(other, probe.prefs)

ScoredCC == Scored /\ probe.category = CREDIT_CARDS

\* the cashback rates process_product extracts, in tenths: none, or a number
\* that is not negative; the cashback component reaches 30 points at 6.0
CashbackRates == {NoVal, Some(0), Some(20), Some(50), Some(60), Some(75), Some(125)}
\* the rate gives the full 30 points
AtCap(rate) == rate.some /\ rate.v * 5 * 100 >= Pts(30)

\* absent is the lowest rate
RateAtMost(r1, r2) == ~r1.some \/ (r2.some /\ r1.v <= r2.v)

\* the score of the scored card with another cashback rate
WithCashbackRate(rate) ==
    CCCalculateScore([probe.product EXCEPT !.cashback_rate = rate], probe.prefs)

\* C17: of two credit cards that differ only in cashback_rate (absent the
\* lowest), the one with the higher rate never scores lower, and at or above
\* the rate where the cashback component reaches 30 points the score does not
\* change
C17_CashbackMonotone ==
    ScoredCC =>
        /\ probe.score = WithCashbackRate(probe.product.cashback_rate)
        /\ \A r1, r2 \in CashbackRates \cup {probe.product.cashback_rate} :
              /\ RateAtMost(r1, r2) => WithCashbackRate(r1) <= WithCashbackRate(r2)
              /\ (AtCap(r1) /\ AtCap(r2)) => WithCashbackRate(r1) = WithCashbackRate(r2)

\* a card with a 5% cashback that scores more at 6% and the same at 12.5%
C17_Witness ==
    /\ ScoredCC
    /\ probe.product.cashback_rate = Some(50)
    /\ probe.score < WithCashbackRate(Some(60))
    /\ WithCashbackRate(Some(60)) = WithCashbackRate(Some(125))
    /\ WithCashbackRate(NoVal) < probe.score

ScoredMF == Scored /\ probe.category = MUTUAL_FUNDS

\* the six risk levels in ascending order, lowered
RiskLevels == << <<"low", "risk">>, <<"low", "to", "moderate", "risk">>,
                 <<"moderate", "risk">>, <<"moderately", "high", "risk">>,
                 <<"high", "risk">>, <<"very", "high", "risk">> >>

\* the ordinal of a risk text, whatever its case: 1..6, and 3 for a text that
\* is no risk level and for an absent tolerance
RiskOrdinal(v) ==
    IF v.k = "str" /\ \E i \in 1..Len(RiskLevels) : RiskLevels[i] = Lower(v.t)
    THEN CHOOSE i \in 1..Len(RiskLevels) : RiskLevels[i] = Lower(v.t)
    ELSE 3

\* the risk-alignment score of the scored fund
ProbeRiskScore == CalculateRiskScore(probe.product.risk_level, probe.prefs)
ProbeRiskDiff ==
    Abs(RiskOrdinal(probe.product.risk_level) - RiskOrdinal(probe.prefs["risk_tolerance"]))

\* C18: the risk-alignment score is 20 if and only if the product's risk text
\* and the user's risk_tolerance text have the same ordinal, and 15, 10 or 5
\* for an ordinal difference of 1, 2 or more
C18_RiskScoreByOrdinal ==
    ScoredMF =>
        /\ ProbeRiskScore = 20 <=> ProbeRiskDiff = 0
        /\ ProbeRiskDiff = 1 => ProbeRiskScore = 15
        /\ ProbeRiskDiff = 2 => ProbeRiskScore = 10
        /\ ProbeRiskDiff > 2 => ProbeRiskScore = 5

\* a 'Low Risk' fund scored for the tolerance 'low risk'
C18_Witness ==
    /\ ScoredMF
    /\ probe.product.risk_level = Str(<<"Low", "Risk">>)
    /\ probe.prefs["risk_tolerance"] = Str(<<"low", "risk">>)
    /\ ProbeRiskScore = 20

\* the components of the credit-card score as the weights table gives them, in
\* thousandths of a point; rates and fees are in tenths
CashbackComponent(product) ==
    IF product.cashback_rate.some THEN PyMin(5 * product.cashback_rate.v * 100, Pts(30)) ELSE 0

FeeComponent(product) ==
    CASE ~product.annual_fee.some -> Pts(15)
      [] product.annual_fee.some /\ product.annual_fee.v = 0 -> Pts(25)
      [] product.annual_fee.some /\ product.annual_fee.v # 0
            /\ product.annual_fee.v <= 5000 -> Pts(20)
      [] product.annual_fee.some /\ product.annual_fee.v > 5000
            /\ product.annual_fee.v <= 20000 -> Pts(10)
      [] OTHER -> Pts(5)

FeaturesComponent(product) == PyMin(Pts(2 * Len(product.features)), Pts(15))

BankComponent(product) ==
    IF \E bank \in CCReputableBanks : Contains(Lower(product.bank.t), bank)
    THEN Pts(10) ELSE Pts(5)

\* C19: the score of a credit card is min(100, cashback + fee + benefits +
\* features + bank), with cashback = min(5 x rate, 30), fee 25 / 20 / 10 / 5 for
\* a fee of 0 / <= 500 / <= 2000 / above and 15 when unknown, benefits capped
\* at 20, features = min(2 x n, 15) and bank 10 or 5; the maxima sum to 100
C19_CCScoreFormula ==
    /\ Pts(30) + Pts(25) + Pts(20) + Pts(15) + Pts(10) = MaxScore
    /\ ScoredCC =>
          probe.score = PyMin(CashbackComponent(probe.product) + FeeComponent(probe.product)
                                + CCBenefitPoints(probe.product)
                                + FeaturesComponent(probe.product)
                                + BankComponent(probe.product), MaxScore)

\* a card of a reputable bank with an unknown fee, a cashback and features
C19_Witness ==
    /\ ScoredCC
    /\ ~probe.product.annual_fee.some
    /\ probe.product.cashback_rate.some
    /\ Len(probe.product.features) > 7
    /\ BankComponent(probe.product) = Pts(10)

\* the components of the mutual-fund score as the weights table gives them, in
\* thousandths of a point; returns and expense ratios are in tenths
PerformanceComponent(product) ==
    IF product.returns_5y.some THEN PyMin(2 * product.returns_5y.v * 100, Pts(50))
    ELSE IF product.returns_3y.some THEN PyMin(15 * product.returns_3y.v * 10, Pts(40))
    ELSE IF product.returns_1y.some THEN PyMin(product.returns_1y.v * 100, Pts(30))
    ELSE 0

\* rating / 5 x 25, for a rating that is not negative
RatingComponent(product) == (product.rating * Pts(25)) \div 5

ExpenseComponent(product) ==
    CASE ~product.expense_ratio.some -> Pts(5)
      [] product.expense_ratio.some /\ product.expense_ratio.v <= 5 -> Pts(10)
      [] product.expense_ratio.some /\ product.expense_ratio.v > 5
            /\ product.expense_ratio.v <= 10 -> Pts(8)
      [] product.expense_ratio.some /\ product.expense_ratio.v > 10
            /\ product.expense_ratio.v <= 15 -> Pts(6)
      [] product.expense_ratio.some /\ product.expense_ratio.v > 15
            /\ product.expense_ratio.v <= 20 -> Pts(4)
      [] OTHER -> Pts(2)

\* min(100, 0.4 P + 0.25 R + 0.2 K + 0.1 E + 0.05 S)
WeightedTotal(product, user_preferences) ==
    PyMin((40 * PerformanceComponent(product) + 25 * RatingComponent(product)
             + 20 * Pts(CalculateRiskScore(product.risk_level, user_preferences))
             + 10 * ExpenseComponent(product)
             + 5 * Pts(CalculateStabilityScore(product))) \div 100, MaxScore)

\* the scored fund with other returns and another expense ratio
FundVariants ==
    {[probe.product EXCEPT !.returns_5y = r5, !.returns_3y = r3, !.expense_ratio = e] :
        r5 \in {probe.product.returns_5y, Some(0), Some(300)},
        r3 \in {probe.product.returns_3y, Some(0), Some(300)},
        e \in {probe.product.expense_ratio, Some(0), Some(8), Some(10), Some(12),
               Some(20), Some(21)}}

OtherPrefs ==
    ScorePrefs \cup OneKeyPrefs({"investment_goal", "is_senior_citizen", "max_annual_fee",
                                 "spending_categories"})

\* the score of the scored product under another preference map
ScoreUnder(prefs) == CalculateScore(probe.category, probe.product, prefs)
ScoresUnder(prefs) == ScoreExc(probe.category, probe.product, prefs) = "none"

\* C21 as stated: in every category calculate_score returns the same score for
\* the same product under any two preference maps
C21_ScoreIgnoresPreferences ==
    Scored => \A prefs \in OtherPrefs : ScoresUnder(prefs) => ScoreUnder(prefs) = probe.score

\* C21: calculate_score of a credit card or a fixed deposit returns the same
\* score under any two preference maps; that of a mutual fund returns the same
\* score under two maps whose risk_tolerance has the same ordinal, whatever
\* their other keys, and may differ otherwise
C21_ScoreReadsRiskToleranceOnly ==
    Scored =>
        \A prefs \in OtherPrefs :
            (/\ ScoresUnder(prefs)
             /\ \/ probe.category # MUTUAL_FUNDS
                \/ RiskOrdinal(prefs["risk_tolerance"])
                       = RiskOrdinal(probe.prefs["risk_tolerance"]))
                => ScoreUnder(prefs) = probe.score

\* a fund scored for one risk tolerance that scores otherwise for another, and
\* the same for a third map with other keys
C21_Witness ==
    /\ ScoredMF
    /\ probe.prefs["risk_tolerance"] = Str(<<"low", "risk">>)
    /\ \E prefs \in OtherPrefs : ScoresUnder(prefs) /\ ScoreUnder(prefs) # probe.score
    /\ \E prefs \in OtherPrefs :
          /\ prefs # probe.prefs /\ ScoresUnder(prefs) /\ ScoreUnder(prefs) = probe.score

\* the boost signals of a ranker with their multipliers, a boost in thousandths
Boosts(category, sp, query, preferences) ==
    CASE category = CREDIT_CARDS ->
            << <<CCQueryRelevance(sp.product, query), 5>>,
               <<CCPreferenceAlignment(sp.product, preferences), 3>>,
               <<CCCategoryOptimization(sp.product, preferences), 2>> >>
      [] category = FIXED_DEPOSITS ->
            << <<FDTenureAlignment(sp.product, preferences), 3>>,
               <<FDAmountAlignment(sp.product, preferences), 2>>,
               <<FDSeniorCitizenBoost(sp.product, preferences), 2>>,
               <<FDQueryRelevance(sp.product, query), 2>>,
               <<FDSafetyBoost(sp.product), 1>> >>
      [] OTHER ->
            << <<MFGoalAlignment(sp.product, preferences), 4>>,
               <<MFHorizonOptimization(sp.product, preferences), 3>>,
               <<MFQueryRelevance(sp.product, query), 2>>,
               <<MFSipSuitability(sp.product, preferences), 1>> >>

\* sum of boost_i x multiplier_i, in thousandths of a point
BoostPoints(boosts) ==
    SumOver([i \in DOMAIN boosts |-> boosts[i][1] * boosts[i][2]], DOMAIN boosts)

\* the i-th product of the ranked batch: its base score, boosts and enhanced score
ProbeCase(i) ==
    [base |-> probe.products[i].score,
     product |-> probe.products[i].product,
     boosts |-> Boosts(probe.category, probe.products[i], probe.query, probe.prefs),
     enhanced |-> EnhancedScore(probe.category, probe.products[i], probe.query, probe.prefs)]

EnhancedWithinBounds(case) ==
    /\ \A k \in DOMAIN case.boosts : 0 <= case.boosts[k][1] /\ case.boosts[k][1] <= 1000
    /\ case.enhanced = PyMin(case.base + BoostPoints(case.boosts), MaxScore)
    /\ (0 <= case.base /\ case.base <= MaxScore) =>
          /\ case.base <= case.enhanced
          /\ case.enhanced <= PyMin(case.base + Pts(10), MaxScore)
    /\ \E j \in 1..Len(probe.out) :
          probe.out[j].product = case.product /\ probe.out[j].score = case.enhanced

\* C22: the enhanced score of every ranked product is min(100, base + sum of
\* boost x multiplier) with the ranker's fixed multipliers, every boost lies in
\* [0, 1], and for a base score in [0, 100] the enhanced score lies between
\* base and min(100, base + 10); the list returned holds that score
C22_EnhancedScoreBounds ==
    Ranked => \A i \in 1..Len(probe.products) : With(ProbeCase(i), EnhancedWithinBounds)

RaisedByTwo(case) ==
    /\ Cardinality({k \in DOMAIN case.boosts : case.boosts[k][1] > 0}) >= 2
    /\ case.enhanced > case.base
Absorbed(case) == BoostPoints(case.boosts) > 0 /\ case.enhanced = MaxScore

\* a batch with a product that two different boosts raised, and one whose
\* boosts the clamp to 100 absorbed
C22_Witness ==
    /\ Ranked
    /\ \E i \in 1..Len(probe.products) : With(ProbeCase(i), RaisedByTwo)
    /\ \E i \in 1..Len(probe.products) : With(ProbeCase(i), Absorbed)

\* the phrases of each ranker from the least to the most enthusiastic, nothing
\* being the least
PhraseLadder(category) ==
    CASE category = CREDIT_CARDS ->
            << <<>>, <<" Partially matches your preferences.">>,
               <<" Good match for your requirements.">>,
               <<" Highly relevant to your query and preferences.">> >>
      [] category = FIXED_DEPOSITS ->
            << <<>>, <<" Suitable option for your deposit needs.">>,
               <<" Good alignment with your investment preferences.">>,
               <<" Excellent match for your deposit requirements and risk profile.">> >>
      [] OTHER ->
            << <<>>, <<" Suitable for your investment preferences.">>,
               <<" Good match for your investment strategy.">>,
               <<" Excellent alignment with your investment goals and risk profile.">> >>

\* the place of a phrase on the ladder, 0 if it is not on it
Enthusiasm(category, phrase) ==
    IF \E k \in 1..4 : PhraseLadder(category)[k] = phrase
    THEN CHOOSE k \in 1..4 : PhraseLadder(category)[k] = phrase
    ELSE 0

\* the phrase a ranker appends for an improvement, taken on a product of score
\* 0 and empty reasoning
PhraseFor(category, improvement) ==
    RankingReasoning(category, ScoredProduct(NoProduct, 0, <<>>), improvement)

\* improvements in thousandths of a point, around every threshold
Improvements == {0, 300, 500, 600, 1000, 1100, 1500, 1600, 2000, 2100, 3000, 3100, 10000}

\* the phrases are a non-decreasing function of the improvement
LadderClimbs(category) ==
    /\ PhraseFor(category, 0) = <<>>
    /\ \A d \in Improvements : Enthusiasm(category, PhraseFor(category, d)) > 0
    /\ \A d1, d2 \in Improvements :
          d1 <= d2 => Enthusiasm(category, PhraseFor(category, d1))
                        <= Enthusiasm(category, PhraseFor(category, d2))

\* the reasoning of the ranked product is its reasoning followed by the phrase
\* of its improvement, at its own score and at every other improvement
ReasoningFollows(case) ==
    /\ \E j \in 1..Len(probe.out) :
          /\ probe.out[j].product = case.product
          /\ probe.out[j].reasoning
                = case.sp.reasoning \o PhraseFor(probe.category, case.enhanced - case.sp.score)
    /\ \A d \in Improvements :
          RankingReasoning(probe.category, case.sp, case.sp.score + d)
              = case.sp.reasoning \o PhraseFor(probe.category, d)
    /\ case.enhanced = case.sp.score =>
          \E j \in 1..Len(probe.out) :
              probe.out[j].product = case.product /\ probe.out[j].reasoning = case.sp.reasoning

ReasoningCase(i) ==
    [sp |-> probe.products[i], product |-> probe.products[i].product,
     boosts |-> Boosts(probe.category, probe.products[i], probe.query, probe.prefs),
     enhanced |-> EnhancedScore(probe.category, probe.products[i], probe.query, probe.prefs)]

\* C23: the reasoning of every ranked product is the reasoning it came with
\* followed by a phrase that depends on the improvement alone: nothing for no
\* improvement, also when the clamp to 100 absorbs the boosts, and never a
\* less enthusiastic phrase for a larger improvement
C23_ReasoningByImprovement ==
    Ranked =>
        /\ LadderClimbs(probe.category)
        /\ \A i \in 1..Len(probe.products) : With(ReasoningCase(i), ReasoningFollows)

Unchanged(case) ==
    /\ BoostPoints(case.boosts) > 0 /\ case.enhanced = case.sp.score
    /\ \E j \in 1..Len(probe.out) :
          probe.out[j].product = case.product /\ probe.out[j].reasoning = case.sp.reasoning
Changed(case) ==
    \E j \in 1..Len(probe.out) :
        /\ probe.out[j].product = case.product
        /\ Enthusiasm(probe.category, PhraseFor(probe.category, case.enhanced - case.sp.score)) > 1
        /\ probe.out[j].reasoning # case.sp.reasoning

\* a batch with a product of score 100 whose boosts the clamp absorbed and a
\* product that was given a phrase
C23_Witness ==
    /\ Ranked
    /\ \E i \in 1..Len(probe.products) : With(ReasoningCase(i), Unchanged)
    /\ \E i \in 1..Len(probe.products) : With(ReasoningCase(i), Changed)

-----------------------------------------------------------------------------
(* FinancialProductManager: populating the vector store *)

\* the embedding functions a manager is constructed with: None, or a function
\* of the text (here the text's length and a constant component)
NoEmbedding == "none"
ByLength == "by_length"
EmbeddingFunctions == {NoEmbedding, ByLength}
Embed(embedding_function, text) == <<Len(text), 1>>

\* " | ".join(filter(None, text_parts)) raising: a part that is truthy and no str
CreateEmbeddingTextExc(product) ==
    IF Truthy(product.description) /\ product.description.k # "str" THEN "TypeError"
    ELSE "none"

\* FinancialProductManager._create_embedding_text
CreateEmbeddingText(product) ==
    LET HasBank == product.category = CREDIT_CARDS
        HasRisk == product.category = MUTUAL_FUNDS
        part(toks) == IF toks = <<>> THEN <<>> ELSE <<"|">> \o toks
    IN  part(product.name)
        \o part(IF Truthy(product.description) THEN product.description.t ELSE <<>>)
        \o part(<<"Category:", product.category>>)
        \o part(IF product.features # <<>> THEN <<"Features:", Len(product.features)>> ELSE <<>>)
        \o part(IF HasBank THEN <<"Bank:">> \o StrOf(product.bank) ELSE <<>>)
        \o part(IF HasRisk THEN <<"Risk:">> \o StrOf(product.risk_level) ELSE <<>>)

\* getattr(processed_product, 'bank', default): only CreditCardInfo has the field
BankOf(product, default) ==
    IF product.category = CREDIT_CARDS THEN product.bank ELSE default

\* one pass of the per-record try of _embed_category_products: the exception
\* its body raises ("none" if the triple is appended), whether the handler
\* raises in turn, and the (vector_id, embedding, metadata) triple
EmbedRecord(category, raw, manager, embedding_function) ==
    LET triple(product) ==
            [id |-> GenerateVectorId([name |-> product.name, type |-> category,
                                      bank |-> StrOf(BankOf(product, Str(<<>>)))]),
             vector |-> Embed(embedding_function, CreateEmbeddingText(product)),
             metadata |-> VectorMetadata(product.id, category, product.name,
                                         BankOf(product, None))]
        embed(product) ==
            With(IF CreateEmbeddingTextExc(product) # "none"
                 THEN CreateEmbeddingTextExc(product)
                 ELSE GenerateVectorIdExc(manager),
                 LAMBDA exc : [exc |-> exc, handler |-> RecordHandlerExc(raw),
                               triple |-> IF exc = "none" THEN triple(product)
                                          ELSE <<>>])
    IN  With(ProcessExc(category, raw),
             LAMBDA pexc :
                 IF pexc # "none"
                 THEN [exc |-> pexc, handler |-> RecordHandlerExc(raw), triple |-> <<>>]
                 ELSE With(ProcessProduct(category, raw), embed))

\* vectors_to_upsert after the record loop
VectorsToUpsert(records) ==
    LET kept == SelectSeq(records, LAMBDA r : r.exc = "none")
    IN  [i \in 1..Len(kept) |-> kept[i].triple]

\* _embed_category_products up to the upsert: the exception it raises ("none"
\* if it gets there) and vectors_to_upsert
CategoryVectors(category, world, manager, embedding_function) ==
    LET result(exc, vectors) == [exc |-> exc, vectors |-> vectors]
        embed(raw) == EmbedRecord(category, raw, manager, embedding_function)
        collect(records) ==
            IF \E i \in 1..Len(records) :
                   records[i].exc # "none" /\ records[i].handler # "none"
            THEN result("AttributeError", <<>>)
            ELSE result("none", VectorsToUpsert(records))
        load(exc) ==
            IF exc # "none" THEN result(exc, <<>>)
            ELSE With(MapSeq(LoadData(category, world, None), embed), collect)
    IN  IF embedding_function = NoEmbedding THEN result("none", <<>>)
        ELSE IF category \notin Implemented THEN result("KeyError", <<>>)
        ELSE With(LoadExc(category, world, None), load)

\* _embed_category_products from the upsert on: the exception it raises, the
\* count it returns and the manager after it
EmbedReturn(prepared, manager, answers) ==
    LET return(upsert) ==
            [exc |-> "none",
             returned |-> IF upsert.returned THEN Len(prepared.vectors) ELSE 0,
             manager |-> upsert.manager]
    IN  IF prepared.exc # "none" \/ prepared.vectors = <<>>
        THEN [exc |-> prepared.exc, returned |-> 0, manager |-> manager]
        ELSE With(UpsertVectors(manager, prepared.vectors, answers), return)

\* FinancialProductManager._embed_category_products
EmbedCategoryProducts(category, world, manager, embedding_function, answers) ==
    With(CategoryVectors(category, world, manager, embedding_function),
         LAMBDA prepared : EmbedReturn(prepared, manager, answers))

\* the most batches one category's upsert posts
MaxPosts == 3

\* FinancialProductManager(embedding_function, use_cloudflare)
Construct ==
    /\ pc = "idle" /\ probe.op = "idle" /\ vs.op = "idle"
    /\ \E use_cloudflare \in BOOLEAN, credentials \in BOOLEAN,
          embedding_function \in EmbeddingFunctions, world \in Worlds :
          /\ vm' = InitializeVectorManager(use_cloudflare, credentials)
          /\ vs' = [op |-> "constructed", world |-> world,
                    embedding_function |-> embedding_function]
    /\ UNCHANGED <<probe, pc, req, idx, all_products, catlog, rec, threads>>

\* initialize_vector_store is called: the index is created for the remote
\* manager, and a failure to create it returns False
InitializeVectorStore ==
    /\ vs.op = "constructed"
    /\ \E index_created \in BOOLEAN :
          vs' = IF vm.kind = "cloudflare" /\ ~index_created
                THEN [vs EXCEPT !.op = "returned"] @@ [result |-> FALSE, counts |-> <<>>]
                ELSE [vs EXCEPT !.op = "embedding"] @@ [counts |-> <<>>]
    /\ UNCHANGED <<probe, pc, req, idx, all_products, catlog, rec, vm, threads>>

\* one iteration of for category in ProductCategory: the count of
\* _embed_category_products is added, or its exception printed
EmbedCategory ==
    /\ vs.op = "embedding" /\ Len(vs.counts) < Len(ProductCategory)
    /\ \E prepared \in {CategoryVectors(ProductCategory[Len(vs.counts) + 1], vs.world,
                                        vm, vs.embedding_function)} :
       \E answers \in [1..MaxPosts -> Answers] :
       \E outcome \in {EmbedReturn(prepared, vm, answers)} :
          /\ vm' = outcome.manager
          /\ vs' = [vs EXCEPT !.counts = Append(@, [exc |-> outcome.exc,
                                                    returned |-> outcome.returned])]
    /\ UNCHANGED <<probe, pc, req, idx, all_products, catlog, rec, threads>>

\* total_embedded after the categories in counts
TotalEmbedded(counts) == SumOver([i \in 1..Len(counts) |-> counts[i].returned], 1..Len(counts))

\* return total_embedded > 0
StoreInitialized ==
    /\ vs.op = "embedding" /\ Len(vs.counts) = Len(ProductCategory)
    /\ vs' = [vs EXCEPT !.op = "returned"] @@ [result |-> TotalEmbedded(vs.counts) > 0]
    /\ UNCHANGED <<probe, pc, req, idx, all_products, catlog, rec, vm, threads>>

NextEmbed == Construct \/ InitializeVectorStore \/ EmbedCategory \/ StoreInitialized

\* populating the vector store of a new manager
SpecEmbed == Init /\ [][NextEmbed]_vars

\* a category of the data directory has a record its processor processes
ProductLoaded(world) ==
    \E category \in Implemented :
        /\ LoadExc(category, world, None) = "none"
        /\ \E i \in 1..Len(LoadData(category, world, None)) :
               ProcessExc(category, LoadData(category, world, None)[i]) = "none"

\* C24: with an embedding function configured and the in-memory store in
\* use, initialize_vector_store returns True whenever at least one product
\* was loaded, each category having stored one triple a processed record
C24_FallbackStorePopulated ==
    (vs.op = "returned" /\ vm.kind = "fallback"
         /\ vs.embedding_function # NoEmbedding /\ ProductLoaded(vs.world))
    => vs.result /\ vm.vectors # <<>>

-----------------------------------------------------------------------------
(* CloudflareVectorizeManager.upsert_vectors, one post at a time *)

\* the longest list upserted
MaxVectors == 6

\* the triples upserted: two products of one bank
UpsertTriples ==
    {[id |-> <<name>>, vector |-> <<1, 0>>,
      metadata |-> VectorMetadata(<<"cc", name>>, CREDIT_CARDS, <<name>>, Str(<<"HDFC">>))] :
        name \in {"Gold", "Plain"}}
UpsertLists == UNION {[1..n -> UpsertTriples] : n \in 0..MaxVectors}

\* upsert_vectors is called on a new manager: vector_data is prepared
UpsertCall ==
    /\ pc = "idle" /\ probe.op = "idle" /\ vs.op = "idle"
    /\ vm' = CloudflareVectorizeManager
    /\ \E vectors \in UpsertLists :
          vs' = [op |-> "upserting", vectors |-> vectors,
                 vector_data |-> VectorData(vectors), i |-> 0, answers |-> <<>>]
    /\ UNCHANGED <<probe, pc, req, idx, all_products, catlog, rec, threads>>

\* vector_data[i:i + batch_size]
BatchAt(vector_data, i) ==
    SubSeq(vector_data, i + 1, PyMin(i + BatchSize, Len(vector_data)))

\* one iteration of for i in range(0, len(vector_data), batch_size): the batch
\* is posted; an answer other than 200 and 201 returns False, and so does a
\* post that raises
PostBatch ==
    /\ vs.op = "upserting" /\ vs.i < Len(vs.vector_data)
    /\ vm' = [vm EXCEPT !.posted = Append(@, BatchAt(vs.vector_data, vs.i))]
    /\ \E answer \in Answers :
          vs' = IF Accepted(answer)
                THEN [vs EXCEPT !.i = @ + BatchSize, !.answers = Append(@, answer)]
                ELSE [vs EXCEPT !.op = "upserted", !.answers = Append(@, answer)]
                     @@ [returned |-> FALSE]
    /\ UNCHANGED <<probe, pc, req, idx, all_products, catlog, rec, threads>>

\* the loop is over: return True
UpsertReturn ==
    /\ vs.op = "upserting" /\ vs.i >= Len(vs.vector_data)
    /\ vs' = [vs EXCEPT !.op = "upserted"] @@ [returned |-> TRUE]
    /\ UNCHANGED <<probe, pc, req, idx, all_products, catlog, rec, vm, threads>>

NextUpsert == UpsertCall \/ PostBatch \/ UpsertReturn

\* one call of upsert_vectors on the remote manager
SpecUpsert == Init /\ [][NextUpsert]_vars

\* answers 200 and 201 only
AllAnswered(answers) == \A k \in 1..Len(answers) : answers[k] \in {200, 201}

\* the vectors of the k-th batch of at most BatchSize, in input order
ConsecutiveBatch(vector_data, k) ==
    [j \in 1..(PyMin(k * BatchSize, Len(vector_data)) - (k - 1) * BatchSize) |->
        vector_data[(k - 1) * BatchSize + j]]

\* the number of batches a list of n vectors makes
BatchCount(n) == (n + BatchSize - 1) \div BatchSize

\* C25: upsert_vectors posts the vectors in input order as consecutive
\* batches of at most batch_size, each vector in exactly one batch; it
\* returns True exactly when every batch was answered 200 or 201, and at the
\* first batch answered otherwise it returns False with no later batch
\* posted and the earlier ones still posted
C25_UpsertBatches ==
    vs.op \in {"upserting", "upserted"} =>
        /\ Len(vm.posted) = Len(vs.answers)
        /\ Len(vm.posted) <= BatchCount(Len(vs.vectors))
        /\ \A k \in 1..Len(vm.posted) :
               /\ vm.posted[k] = ConsecutiveBatch(VectorData(vs.vectors), k)
               /\ Len(vm.posted[k]) \in 1..BatchSize
               /\ k < Len(vm.posted) => vs.answers[k] \in {200, 201}
        /\ vs.op = "upserted" =>
               /\ vs.returned <=> (/\ Len(vm.posted) = BatchCount(Len(vs.vectors))
                                   /\ AllAnswered(vs.answers))
               /\ ~vs.returned => vs.answers[Len(vs.answers)] \notin {200, 201}

\* a call that returned False after an accepted batch and before its last batch
C25_Witness ==
    /\ vs.op = "upserted" /\ ~vs.returned
    /\ Len(vm.posted) >= 2 /\ Len(vm.posted) < BatchCount(Len(vs.vectors))
    /\ vs.answers[1] = 201

-----------------------------------------------------------------------------
(* FallbackVectorManager: upserts and queries.  Vectors have two integer     *)
(* components and are not zero; a cosine similarity is kept as the dot       *)
(* product and the squared product of the norms.                             *)

Dot(a, b) == a[1] * b[1] + a[2] * b[2]

\* np.dot(q, v) / (np.linalg.norm(q) * np.linalg.norm(v))
Similarity(q, v) == [dot |-> Dot(q, v), norms2 |-> Dot(q, q) * Dot(v, v)]

\* s1 >= s2 for two similarities
SimilarityGE(s1, s2) ==
    CASE s1.dot >= 0 /\ s2.dot < 0 -> TRUE
      [] s1.dot < 0 /\ s2.dot >= 0 -> FALSE
      [] s1.dot >= 0 /\ s2.dot >= 0 -> s1.dot * s1.dot * s2.norms2 >= s2.dot * s2.dot * s1.norms2
      [] OTHER -> s1.dot * s1.dot * s2.norms2 <= s2.dot * s2.dot * s1.norms2

\* data['metadata'].get(key)
MetadataGet(metadata, key) ==
    IF key \in DOMAIN metadata THEN metadata[key] ELSE None

\* the filter loop of query_vectors: no pair with .get(key) != value; a filter
\* that is None or empty filters nothing
MatchesFilter(metadata, filter_metadata) ==
    \A p \in 1..Len(filter_metadata) :
        MetadataGet(metadata, filter_metadata[p][1]) = filter_metadata[p][2]

RECURSIVE SortBySimilarity(_)
\* similarities.sort(key=lambda x: x['score'], reverse=True): stable
SortBySimilarity(similarities) ==
    IF similarities = <<>> THEN <<>>
    ELSE LET n == Len(similarities)
             e == similarities[n]
             sorted == SortBySimilarity(SubSeq(similarities, 1, n - 1))
             before == {i \in 1..Len(sorted) : SimilarityGE(sorted[i].score, e.score)}
             k == IF before = {} THEN 0 ELSE SetMax(before)
         IN  SubSeq(sorted, 1, k) \o <<e>> \o SubSeq(sorted, k + 1, Len(sorted))

\* FallbackVectorManager.query_vectors
FallbackQuery(manager, query_vector, top_k, filter_metadata) ==
    LET kept == SelectSeq(manager.vectors,
                          LAMBDA data : MatchesFilter(data.metadata, filter_metadata))
        similarities == [i \in 1..Len(kept) |->
                            [id |-> kept[i].id,
                             score |-> Similarity(query_vector, kept[i].vector),
                             metadata |-> kept[i].metadata]]
    IN  SliceTo(SortBySimilarity(similarities), top_k)

\* the vectors, ids and banks of the upserts, the query vectors, the values of
\* top_k and the filters
StoreVectors == {<<1, 0>>, <<1, 1>>, <<-1, 2>>}
StoreTriples ==
    {[id |-> <<name>>, vector |-> vector,
      metadata |-> VectorMetadata(<<"cc", name>>, CREDIT_CARDS, <<name>>, Str(<<bank>>))] :
        name \in {"Gold", "Plain"}, vector \in StoreVectors, bank \in {"HDFC", "SBI"}}
MaxUpsert == 2
StoreLists == UNION {[1..n -> StoreTriples] : n \in 0..MaxUpsert}
MaxTopK == 3
NegTopK == 1
Filters == {<<>>, <<<<"bank_name", Str(<<"HDFC">>)>>>>,
            <<<<"bank_name", Str(<<"SBI">>)>>, <<"issuer", None>>>>,
            <<<<"issuer", Str(<<"HDFC">>)>>>>}

\* the last upsert of every id: last after one more upsert_vectors call
LastUpserts(last, vectors) ==
    LET ids == DOMAIN last \cup {vectors[i].id : i \in 1..Len(vectors)}
        final(id) == SetMax({i \in 1..Len(vectors) : vectors[i].id = id})
    IN  [id \in ids |->
            IF \E i \in 1..Len(vectors) : vectors[i].id = id
            THEN [vector |-> vectors[final(id)].vector,
                  metadata |-> vectors[final(id)].metadata]
            ELSE last[id]]

\* FallbackVectorManager(): an empty store
StoreCreate ==
    /\ pc = "idle" /\ probe.op = "idle" /\ vs.op = "idle"
    /\ vm' = FallbackVectorManager
    /\ vs' = [op |-> "created", last |-> <<>>]
    /\ UNCHANGED <<probe, pc, req, idx, all_products, catlog, rec, threads>>

\* upsert_vectors(vectors) on the in-memory store
StoreUpsert ==
    /\ vs.op \in {"created", "upserted", "queried"}
    /\ \E vectors \in StoreLists :
       \E upsert \in {FallbackUpsert(vm, vectors)} :
          /\ vm' = upsert.manager
          /\ vs' = [op |-> "upserted", last |-> LastUpserts(vs.last, vectors),
                    returned |-> upsert.returned]
    /\ UNCHANGED <<probe, pc, req, idx, all_products, catlog, rec, threads>>

\* query_vectors(query_vector, top_k, filter_metadata) on the in-memory store
StoreQuery ==
    /\ vs.op \in {"created", "upserted", "queried"}
    /\ \E query_vector \in StoreVectors, top_k \in (-NegTopK)..MaxTopK,
          filter_metadata \in Filters :
          vs' = [op |-> "queried", last |-> vs.last, top_k |-> top_k,
                 filter |-> filter_metadata, before |-> vm.vectors,
                 result |-> FallbackQuery(vm, query_vector, top_k, filter_metadata)]
    /\ UNCHANGED <<probe, pc, req, idx, all_products, catlog, rec, vm, threads>>

NextStore == StoreCreate \/ StoreUpsert \/ StoreQuery

\* any sequence of upserts and queries on one in-memory store
SpecStore == Init /\ [][NextStore]_vars

\* the store holds, for every id upserted, one item with the vector and the
\* metadata of its last upsert, and nothing else
HoldsLastUpserts ==
    /\ \A id \in DOMAIN vs.last :
           \E i \in 1..Len(vm.vectors) :
               /\ vm.vectors[i].id = id
               /\ vm.vectors[i].vector = vs.last[id].vector
               /\ vm.vectors[i].metadata = vs.last[id].metadata
               /\ \A j \in 1..Len(vm.vectors) : vm.vectors[j].id = id => j = i
    /\ \A i \in 1..Len(vm.vectors) : vm.vectors[i].id \in DOMAIN vs.last

\* the entries returned match the filter on every key, by decreasing score
FilteredAndOrdered ==
    /\ \A i \in 1..Len(vs.result) :
           \A p \in 1..Len(vs.filter) :
               LET key == vs.filter[p][1]
                   held == vs.result[i].metadata
               IN  IF key \in DOMAIN held THEN held[key] = vs.filter[p][2]
                   ELSE vs.filter[p][2] = None
    /\ \A i \in 1..(Len(vs.result) - 1) :
           SimilarityGE(vs.result[i].score, vs.result[i + 1].score)

\* C26: after any sequence of upserts the in-memory store holds, for each id
\* ever upserted, exactly the vector and metadata of its last upsert; a query
\* returns at most top_k entries, all matching the filter on every key, in
\* non-increasing score order, and leaves the store unchanged
C26_FallbackStore ==
    /\ vs.op \in {"created", "upserted", "queried"} => HoldsLastUpserts
    /\ vs.op = "queried" =>
           /\ Len(vs.result) <= vs.top_k
           /\ FilteredAndOrdered
           /\ vm.vectors = vs.before

-----------------------------------------------------------------------------
(* rank_products on objects.  The heap is a sequence of objects, an address  *)
(* its position: lists hold the addresses of their items, a ScoredProduct    *)
(* holds the address of its product.                                         *)

ListObject(items) ==
    [kind |-> "list", items |-> items, product |-> 0, score |-> 0,
     reasoning |-> <<>>, value |-> NoProduct]
ScoredObject(product, score, reasoning) ==
    [kind |-> "scored", items |-> <<>>, product |-> product, score |-> score,
     reasoning |-> reasoning, value |-> NoProduct]
ProductObject(value) ==
    [kind |-> "product", items |-> <<>>, product |-> 0, score |-> 0,
     reasoning |-> <<>>, value |-> value]

\* the heap a caller holds a list of scored products in: the products, the
\* ScoredProducts wrapping them, and the list
HeapOf(products) ==
    LET n == Len(products)
    IN  [a \in 1..(2 * n + 1) |->
            IF a <= n THEN ProductObject(products[a].product)
            ELSE IF a <= 2 * n
            THEN ScoredObject(a - n, products[a - n].score, products[a - n].reasoning)
            ELSE ListObject([i \in 1..n |-> n + i])]

\* the ScoredProduct at an address, with its product's attributes
ScoredAt(heap, ref) ==
    ScoredProduct(heap[heap[ref].product].value, heap[ref].score, heap[ref].reasoning)

\* the list at an address, as the ScoredProducts it holds
ListAt(heap, ref) ==
    [i \in 1..Len(heap[ref].items) |-> ScoredAt(heap, heap[ref].items[i])]

\* a re-scoring that overwrites the ScoredProduct it is given
RescoredInPlace(heap, ref, score, reasoning) ==
    [heap |-> [heap EXCEPT ![ref].score = score, ![ref].reasoning = reasoning],
     ref |-> ref]

\* ScoredProduct(product=product.product, score=enhanced_score, reasoning=...):
\* a new object holding the address of the same product
NewScoredProduct(heap, ref, score, reasoning) ==
    [heap |-> Append(heap, ScoredObject(heap[ref].product, score, reasoning)),
     ref |-> Len(heap) + 1]

RECURSIVE EnhanceEach(_, _, _, _, _)
\* the loop of rank_products over the addresses in refs: acc holds the heap
\* and the addresses appended to enhanced_products so far
EnhanceEach(category, acc, refs, query, preferences) ==
    IF refs = <<>> THEN acc
    ELSE LET made(sp) ==
                 With(EnhancedScore(category, sp, query, preferences),
                      LAMBDA enhanced_score :
                          NewScoredProduct(acc.heap, refs[1], enhanced_score,
                                           RankingReasoning(category, sp, enhanced_score)))
             next(m) == EnhanceEach(category,
                                    [heap |-> m.heap, refs |-> Append(acc.refs, m.ref)],
                                    Tail(refs), query, preferences)
         IN  With(With(ScoredAt(acc.heap, refs[1]), made), next)

\* sorted(enhanced_products, key=lambda x: x.score, reverse=True): the
\* addresses in the order of the new list
SortedRefs(heap, refs) ==
    LET keyed == [i \in 1..Len(refs) |-> [ref |-> refs[i], score |-> heap[refs[i]].score]]
        sorted == SortedDesc(keyed)
    IN  [i \in 1..Len(sorted) |-> sorted[i].ref]

\* rank_products(products, user_query, user_preferences) on the list at
\* address input: the heap after the call, the exception raised and the
\* address of the list returned (0 when it raises)
RankOnHeap(category, heap, input, query, preferences) ==
    LET refs == heap[input].items
        raised(ref) ==
            EnhancedScoreExc(category, ScoredAt(heap, ref), query, preferences) # "none"
        finish(first) ==
            With(EnhanceEach(category, [heap |-> heap, refs |-> <<>>],
                             IF first = 0 THEN refs ELSE SubSeq(refs, 1, first - 1),
                             query, preferences),
                 LAMBDA acc :
                     IF first # 0
                     THEN [heap |-> Append(acc.heap, ListObject(acc.refs)),
                           exc |-> EnhancedScoreExc(category, ScoredAt(heap, refs[first]),
                                                    query, preferences),
                           out |-> 0]
                     ELSE [heap |-> acc.heap \o <<ListObject(acc.refs),
                                                  ListObject(SortedRefs(acc.heap, acc.refs))>>,
                           exc |-> "none", out |-> Len(acc.heap) + 2])
    IN  IF refs = <<>>
        THEN [heap |-> Append(heap, ListObject(<<>>)), exc |-> "none", out |-> Len(heap) + 1]
        ELSE With(FirstWhere(refs, raised), finish)

\* a ranker is called on a list the caller holds
RankHeld(category, products, query, preferences) ==
    With(HeapOf(products),
         LAMBDA heap :
             With(RankOnHeap(category, heap, Len(heap), query, preferences),
                  LAMBDA call :
                      [op |-> "ranked", category |-> category, query |-> query,
                       prefs |-> preferences, before |-> heap, input |-> Len(heap),
                       heap |-> call.heap, exc |-> call.exc, out |-> call.out]))

RankHeldCC ==
    /\ pc = "idle" /\ probe.op = "idle" /\ vs.op = "idle"
    /\ \E products \in Batches(CREDIT_CARDS), query \in RankQueries,
          prefs \in RankPrefs(CREDIT_CARDS) :
          vs' = RankHeld(CREDIT_CARDS, products, query, prefs)
    /\ UNCHANGED <<probe, pc, req, idx, all_products, catlog, rec, vm, threads>>

RankHeldFD ==
    /\ pc = "idle" /\ probe.op = "idle" /\ vs.op = "idle"
    /\ \E products \in Batches(FIXED_DEPOSITS), query \in RankQueries,
          prefs \in RankPrefs(FIXED_DEPOSITS) :
          vs' = RankHeld(FIXED_DEPOSITS, products, query, prefs)
    /\ UNCHANGED <<probe, pc, req, idx, all_products, catlog, rec, vm, threads>>

RankHeldMF ==
    /\ pc = "idle" /\ probe.op = "idle" /\ vs.op = "idle"
    /\ \E products \in Batches(MUTUAL_FUNDS), query \in RankQueries,
          prefs \in RankPrefs(MUTUAL_FUNDS) :
          vs' = RankHeld(MUTUAL_FUNDS, products, query, prefs)
    /\ UNCHANGED <<probe, pc, req, idx, all_products, catlog, rec, vm, threads>>

NextHeld == RankHeldCC \/ RankHeldFD \/ RankHeldMF

\* one list ranked while its caller holds it
SpecHeld == Init /\ [][NextHeld]_vars

\* C27: rank_products leaves its input unchanged (the list keeps its length
\* and order, every input ScoredProduct its score and reasoning), and each
\* element of the list returned is a new ScoredProduct holding the same
\* product object as an input element, the product's category and attributes
\* unchanged
C27_RankLeavesInput ==
    vs.op = "ranked" =>
        /\ \A a \in 1..Len(vs.before) : vs.heap[a] = vs.before[a]
        /\ vs.exc = "none" =>
               /\ vs.out > Len(vs.before)
               /\ Len(vs.heap[vs.out].items) = Len(vs.before[vs.input].items)
               /\ \A i \in 1..Len(vs.heap[vs.out].items) :
                      LET made == vs.heap[vs.out].items[i]
                      IN  /\ made > Len(vs.before)
                          /\ vs.heap[made].kind = "scored"
                          /\ \E j \in 1..Len(vs.before[vs.input].items) :
                                 vs.heap[made].product
                                     = vs.before[vs.before[vs.input].items[j]].product
               /\ ListAt(vs.heap, vs.out)
                      = RankProducts(vs.category, ListAt(vs.before, vs.input),
                                     vs.query, vs.prefs)

\* a list of two whose ranking changed a score and the order
C27_Witness ==
    /\ vs.op = "ranked" /\ vs.exc = "none"
    /\ Len(vs.before[vs.input].items) = 2
    /\ vs.heap[vs.heap[vs.out].items[1]].product
           = vs.before[vs.before[vs.input].items[2]].product
    /\ vs.heap[vs.heap[vs.out].items[1]].score
           # vs.before[vs.before[vs.input].items[2]].score

-----------------------------------------------------------------------------
(* Two recommend_products calls on one manager.  threads holds the data      *)
(* directory the loaders read, the manager's fields, the all_products lists  *)
(* and one record a call; every access to a list is a step of its own.       *)

Callers == {1, 2}
Other(t) == 3 - t

\* the fields of a constructed manager that a call may reach
ManagerFields ==
    [processors |-> Implemented, data_loaders |-> Implemented, rankers |-> Implemented,
     vector_manager |-> FallbackVectorManager, product_cache |-> <<>>]

\* an all_products kept in one list of the manager for every call
AllProductsOfManager(t) == 1

\* all_products = []: the list of call t is the call's own
AllProductsOfCall(t) == t

\* the calls made concurrently
ConcurrentCalls ==
    {[query |-> <<>>, product_categories |-> Given(<<CREDIT_CARDS, MUTUAL_FUNDS>>),
      user_preferences |-> NotGiven, max_results |-> 2],
     [query |-> <<"Senior", "equity">>,
      product_categories |-> Given(<<FIXED_DEPOSITS, INSURANCE>>),
      user_preferences |-> Given(Prefs([is_senior_citizen |-> Bool(TRUE)])),
      max_results |-> 3],
     [query |-> <<>>, product_categories |-> NotGiven,
      user_preferences |-> NotGiven, max_results |-> 1]}

IdleCall == [pc |-> "idle"]
InCall(call) == call.pc \in {"loop", "extend"}

\* a step of call t is taken while the other call is under way
Overlaps(t) == threads.overlap \/ InCall(threads.calls[Other(t)])

\* a manager is constructed over a data directory and shared by two callers
Share ==
    /\ pc = "idle" /\ probe.op = "idle" /\ vs.op = "idle" /\ threads = <<>>
    /\ \E world \in {WorldGood, WorldMixed} :
          threads' = [world |-> world, manager |-> ManagerFields, overlap |-> FALSE,
                      lists |-> [t \in Callers |-> <<>>],
                      calls |-> [t \in Callers |-> IdleCall]]
    /\ UNCHANGED <<probe, pc, req, idx, all_products, catlog, rec, vm, vs>>

\* a caller enters recommend_products: the defaults are taken and
\* all_products = [] is assigned
ThreadCall ==
    /\ threads # <<>>
    /\ \E t \in Callers, call \in ConcurrentCalls :
          /\ threads.calls[t].pc = "idle"
          /\ threads' = [threads EXCEPT
                 !.overlap = Overlaps(t),
                 !.lists[AllProductsOfCall(t)] = <<>>,
                 !.calls[t] = [pc |-> "loop", call |-> call,
                               categories |-> DefaultCategories(call.product_categories),
                               prefs |-> DefaultPreferences(call.user_preferences),
                               idx |-> 1, pending |-> <<>>]]
    /\ UNCHANGED <<probe, pc, req, idx, all_products, catlog, rec, vm, vs>>

\* _process_category of the next category returns its products, or raises and
\* the handler continues with the category after it
ThreadCategory ==
    /\ threads # <<>>
    /\ \E t \in Callers :
          /\ threads.calls[t].pc = "loop"
          /\ threads.calls[t].idx <= Len(threads.calls[t].categories)
          /\ \E outcome \in {CategoryOutcome(threads.calls[t].categories[threads.calls[t].idx],
                                             threads.calls[t].call.query,
                                             threads.calls[t].prefs, threads.world)} :
                threads' = [threads EXCEPT
                    !.overlap = Overlaps(t),
                    !.calls[t].pending = outcome.products,
                    !.calls[t].idx = IF outcome.exc = "none" THEN @ ELSE @ + 1,
                    !.calls[t].pc = IF outcome.exc = "none" THEN "extend"
                                    ELSE IF Caught(outcome.exc) THEN "loop"
                                    ELSE "raised"]
    /\ UNCHANGED <<probe, pc, req, idx, all_products, catlog, rec, vm, vs>>

\* all_products.extend(category_products)
ThreadExtend ==
    /\ threads # <<>>
    /\ \E t \in Callers :
          /\ threads.calls[t].pc = "extend"
          /\ threads' = [threads EXCEPT
                 !.overlap = Overlaps(t),
                 !.lists[AllProductsOfCall(t)] = Extend(@, threads.calls[t].pending),
                 !.calls[t].pending = <<>>,
                 !.calls[t].idx = @ + 1,
                 !.calls[t].pc = "loop"]
    /\ UNCHANGED <<probe, pc, req, idx, all_products, catlog, rec, vm, vs>>

\* after the loop: all_products is ranked, cut and returned
ThreadFinish ==
    /\ threads # <<>>
    /\ \E t \in Callers :
          /\ threads.calls[t].pc = "loop"
          /\ threads.calls[t].idx > Len(threads.calls[t].categories)
          /\ threads' = [threads EXCEPT
                 !.overlap = Overlaps(t),
                 !.calls[t] = [pc |-> "done", call |-> threads.calls[t].call,
                               rec |-> Recommendation(threads.lists[AllProductsOfCall(t)],
                                                      threads.calls[t].call.query,
                                                      threads.calls[t].prefs,
                                                      threads.calls[t].call.max_results)]]
    /\ UNCHANGED <<probe, pc, req, idx, all_products, catlog, rec, vm, vs>>

NextConcurrent == Share \/ ThreadCall \/ ThreadCategory \/ ThreadExtend \/ ThreadFinish

\* two callers of one manager, their steps interleaved in every order
SpecConcurrent == Init /\ [][NextConcurrent]_vars

\* the recommendation the call returns when no other call is made
Alone(call, world) ==
    RecommendProducts(call.query, call.product_categories, call.user_preferences,
                      call.max_results, world)

\* C28: two recommend_products calls on one manager, interleaved in any
\* order, each return the Recommendation they return alone, and no field of
\* the manager is written
C28_ConcurrentCalls ==
    threads # <<>> =>
        /\ threads.manager = ManagerFields
        /\ \A t \in Callers :
               /\ threads.calls[t].pc # "raised"
               /\ threads.calls[t].pc = "done" =>
                      threads.calls[t].rec = Alone(threads.calls[t].call, threads.world)

\* two calls that overlapped and returned different, non-empty recommendations
C28_Witness ==
    /\ threads # <<>> /\ threads.overlap
    /\ \A t \in Callers : threads.calls[t].pc = "done"
                          /\ threads.calls[t].rec.products # <<>>
    /\ threads.calls[1].rec # threads.calls[2].rec

-----------------------------------------------------------------------------
(* The range of mutual fund scores *)

\* 0.4 * 50 + 0.25 * 25 + 0.2 * 20 + 0.1 * 10 + 0.05 * 5, in thousandths
MFBaseBound == (40 * Pts(50) + 25 * Pts(25) + 20 * Pts(20) + 10 * Pts(10) + 5 * Pts(5)) \div 100

\* the boosts of the mutual fund ranker at their most: 4 + 3 + 2 + 1 points
MFBoostBound == Pts(4) + Pts(3) + Pts(2) + Pts(1)

\* the scored fund with every rating of 0..5, with a 5-year return past the
\* cap, and with the lowest expense ratio and the most stable attributes
RatedFunds ==
    {[probe.product EXCEPT !.rating = r, !.returns_5y = r5, !.expense_ratio = e.expense,
                           !.aum = e.aum, !.fund_manager = e.manager,
                           !.holdings = e.holdings] :
        r \in 0..5,
        r5 \in {probe.product.returns_5y, Some(1000)},
        e \in {[expense |-> probe.product.expense_ratio, aum |-> probe.product.aum,
                manager |-> probe.product.fund_manager,
                holdings |-> probe.product.holdings],
               [expense |-> Some(0), aum |-> Some(100000), manager |-> Str(<<"A">>),
                holdings |-> List([i \in 1..51 |-> Str(<<"H">>)])]}}

\* the scored fund as it is when its rating is in 0..5, and at its best
ProbedFunds ==
    {fund \in RatedFunds :
        \/ fund = probe.product
        \/ (fund.rating = 5 /\ fund.returns_5y = Some(1000) /\ fund.expense_ratio = Some(0))}

\* every enhanced score of the fund, scored with the preferences of the probe
\* and ranked with every query and preference map that does not raise, is at
\* most its base score and the boosts
EnhancedWithinBoosts(fund) ==
    With(MFCalculateScore(fund, probe.prefs),
         LAMBDA base :
             \A query \in RankQueries, prefs \in RankPrefs(MUTUAL_FUNDS) :
                 With(ScoredProduct(fund, base, BaseReasoning(base)),
                      LAMBDA sp :
                          MFEnhancedScoreExc(sp, query, prefs) = "none" =>
                              MFEnhancedScore(sp, query, prefs) <= MFBaseBound + MFBoostBound))

\* C29: for every mutual fund with a rating in 0..5 and every preference map
\* the base score is at most 31.5, so the clamp to 100 never applies, and its
\* enhanced score after ranking is at most 41.5
C29_MFScoreBound ==
    ScoredMF =>
        /\ probe.product.rating \in 0..5 => probe.score <= MFBaseBound
        /\ \A fund \in RatedFunds :
               /\ MFCalculateScore(fund, probe.prefs) <= MFBaseBound
               /\ MFCalculateScore(fund, probe.prefs) = WeightedTotal(fund, probe.prefs)
        /\ \A fund \in ProbedFunds : With(fund, EnhancedWithinBoosts)

\* a scored fund rated 4 that some ranking raises, and that reaches 31.5 with
\* rating 5 and the best of every other attribute
C29_Witness ==
    /\ ScoredMF /\ probe.product.rating = 4 /\ probe.score > Pts(20)
    /\ \E query \in RankQueries, prefs \in RankPrefs(MUTUAL_FUNDS) :
           LET sp == ScoredProduct(probe.product, probe.score, BaseReasoning(probe.score))
           IN  /\ MFEnhancedScoreExc(sp, query, prefs) = "none"
               /\ MFEnhancedScore(sp, query, prefs) > probe.score
    /\ \E fund \in RatedFunds : MFCalculateScore(fund, probe.prefs) = MFBaseBound

-----------------------------------------------------------------------------
(* The horizon penalty of the mutual fund ranker *)

\* the words of the fund's name and features
HasTerm(product, terms) == ContainsAny(ProductText(product), terms)

ShortTermFits == {<<"debt">>, <<"liquid">>, <<"short", "term">>, <<"conservative">>}
LongTermFits == {<<"equity">>, <<"growth">>, <<"small", "cap">>, <<"mid", "cap">>}
HorizonTerms ==
    ShortTermFits \cup LongTermFits
        \cup {<<"aggressive">>, <<"balanced">>, <<"hybrid">>, <<"moderate">>,
              <<"large", "cap">>, <<"diversified">>}

\* the horizon asked for, lowered
Horizon(preferences) == Lower(Get(preferences, "investment_horizon", Str(<<>>)).t)

\* the fund is penalised for the horizon: a short horizon with an equity or
\* aggressive fund, a long horizon with a debt or liquid fund
Mismatched(product, preferences) ==
    \/ /\ Horizon(preferences) \in {<<"short", "term">>, <<"1-3", "years">>}
       /\ HasTerm(product, {<<"equity">>, <<"aggressive">>})
       /\ ~HasTerm(product, ShortTermFits)
    \/ /\ Horizon(preferences) \in {<<"long", "term">>, <<"7+", "years">>}
       /\ HasTerm(product, {<<"debt">>, <<"liquid">>})
       /\ ~HasTerm(product, LongTermFits)

\* the same fund under a name without a horizon term
Unlabelled(product) == [product EXCEPT !.name = <<"Plain", "Fund">>]

\* the boosts other than the horizon's are those of the unlabelled fund
OtherBoostsEqual(product, query, preferences) ==
    /\ MFGoalAlignment(product, preferences)
           = MFGoalAlignment(Unlabelled(product), preferences)
    /\ MFQueryRelevance(product, query) = MFQueryRelevance(Unlabelled(product), query)
    /\ MFSipSuitability(product, preferences)
           = MFSipSuitability(Unlabelled(product), preferences)

\* a mismatched fund of the batch gets no horizon boost and no penalty
PenaltyIsZero(case) ==
    Mismatched(case.sp.product, case.prefs) =>
        /\ MFHorizonOptimization(case.sp.product, case.prefs) = 0
        /\ ~HasTerm(Unlabelled(case.sp.product), HorizonTerms) =>
               /\ MFHorizonOptimization(Unlabelled(case.sp.product), case.prefs) = 0
               /\ OtherBoostsEqual(case.sp.product, case.query, case.prefs) =>
                      MFEnhancedScore(case.sp, case.query, case.prefs)
                          = MFEnhancedScore([case.sp EXCEPT !.product = Unlabelled(@)],
                                            case.query, case.prefs)
        /\ MFEnhancedScore(case.sp, case.query, case.prefs) >= case.sp.score

HorizonCase(i) == [sp |-> probe.products[i], query |-> probe.query, prefs |-> probe.prefs]

====
